---- MODULE Spec2Model ----
(***************************************************************************)
(* A model of the AI analysis pipeline of the workspace stylist app:       *)
(*   - AIAnalysisService.analyzeWorkspace / performAnalysis (orchestrator)  *)
(*   - AIResponseParserService (extractStructuredData, cleanAnalysisData)   *)
(*   - ErgonomicAnalysisService (analyzeErgonomics and its helpers)         *)
(*   - AIPromptService.createPromptContext, ProductRecommendationService,   *)
(*     ColorExtractionService                                               *)
(*   - OpenAIClientService (the cached client and API key)                  *)
(*   - UsageTrackingService, DesignStorageService and                       *)
(*     BackupRecoveryService.restoreFromBackup over AsyncStorage            *)
(* JavaScript values are modelled as tagged records, strings as TLA+        *)
(* strings handled character by character.                                  *)
(***************************************************************************)
EXTENDS Integers, Sequences, FiniteSets, TLC

VARIABLES
    \* one call of ErgonomicAnalysisService.analyzeErgonomics
    ergoIn,      \* analysisData handed to analyzeErgonomics
    ergoCfg,     \* config.strictnessLevel
    ergoOut,     \* the array analyzeErgonomics returned
    ergoPc,      \* "input" before the call, "done" after it
    \* one pass of AIResponseParserService over a raw model text
    parseIn,     \* aiContent
    parseData,   \* what extractStructuredData returned
    parseOut,    \* what cleanAnalysisData returned or threw
    parsePc      \* "input", "extracted", then "cleaned" or "threw"

ergoVars == <<ergoIn, ergoCfg, ergoOut, ergoPc>>
parseVars == <<parseIn, parseData, parseOut, parsePc>>

VARIABLES
    \* one invocation of AIAnalysisService.analyzeWorkspace from the screen
    pc,                   \* where the invocation stands (the await it waits at)
    attempt,              \* the loop variable of the retry loop
    lastError,            \* analyzeWorkspace's lastError
    photo,                \* the file behind request.photo.uri
    openai,               \* OpenAIClientService.openai is set (the client is cached)
    aiContent,            \* performAnalysis's aiContent, Null before the model answers
    cleanedAnalysisData,  \* performAnalysis's cleanedAnalysisData
    progress,             \* analysisState.progress, the last value reported
    isAnalyzing,          \* analysisState.isAnalyzing (the progress modal is up)
    outcome,              \* how the promise settled: Null, Returned(result), Thrown(error)
    \* history
    started,              \* attempts started so far
    succeeded,            \* attempts that ran to their end
    inFlight,             \* Vision Model calls awaiting their answer
    raised,               \* what the last failed attempt threw
    delays,               \* the backoff delays taken, in ms
    reported              \* the progress values onProgress got, in order, since the
                          \* current attempt began (the first attempt includes what
                          \* analyzeWorkspace reports ahead of the loop)

orchVars ==
    <<pc, attempt, lastError, photo, openai, aiContent, cleanedAnalysisData, progress,
      isAnalyzing, outcome, started, succeeded, inFlight, raised, delays, reported>>

VARIABLES
    \* one run of createPromptContext and ProductRecommendationService.generateRecommendations
    quizResponses,    \* the quiz answers handed to createPromptContext
    promptContext,    \* the prompt context handed to generateRecommendations
    recommendations,  \* what generateRecommendations returned or threw
    recPc,            \* "quiz", "context" ("direct" for a context built elsewhere), "done"
    \* one run of ColorExtractionService.extractColorPalette
    colorConfig,      \* config: DEFAULT_OPTIONS overlaid with the caller's options
    pixels,           \* what extractPixelData returned
    dominantColors,   \* what extractDominantColors returned
    palette,          \* the palette extractColorPalette returned
    colorPc,          \* "pixels", "clustered", then "done"
    \* cleanText applied to a string and to its own result
    textIn,           \* the string
    textOnce,         \* cleanText(textIn)
    textTwice,        \* cleanText(cleanText(textIn))
    textPc            \* "input", "once", then "twice"

recVars == <<quizResponses, promptContext, recommendations, recPc>>
colorVars == <<colorConfig, pixels, dominantColors, palette, colorPc>>
textVars == <<textIn, textOnce, textTwice, textPc>>

VARIABLES
    \* OpenAIClientService and the requests made through it
    openaiClient,     \* OpenAIClientService.openai: Null, or the API key the client holds
    cachedApiKey,     \* OpenAIClientService.cachedApiKey: Null or [key, timestamp]
    now,              \* Date.now(), in ms
    issued,           \* keys the proxy has issued so far
    staleUpTo,        \* keys issued before the latest clearCache()
    lastCall,         \* the latest chat.completions.create: Null or [key, at, floor]
    clientPc          \* "idle", "fetching" (the proxy), "calling" (the model)

clientVars == <<openaiClient, cachedApiKey, now, issued, staleUpTo, lastCall, clientPc>>

VARIABLES
    \* UsageTrackingService and the screens that start an analysis
    usageTracking,    \* what AsyncStorage holds under USAGE_TRACKING: Null or the tracking
    earlier,          \* recordAnalysisUsage calls that succeeded earlier today
    callPc,           \* per handler: the await it waits at
    callFlow,         \* per handler: "home" (startAIAnalysis) or "favorites" (re-run)
    callUsage,        \* per handler: updatedUsage of recordAnalysisUsage
    recordedFor,      \* the handlers whose recordAnalysisUsage returned success
    analysesStarted   \* the handlers that called analyzeWorkspace

usageVars ==
    <<usageTracking, earlier, callPc, callFlow, callUsage, recordedFor, analysesStarted>>

VARIABLES
    \* DesignStorageService and the calls made on it
    savedDesigns,     \* the list AsyncStorage holds under SAVED_DESIGNS (empty: no data)
    opPc,             \* per call: the await it waits at
    opKind,           \* per call: "saveDesign", "updateDesign", "toggleFavorite", "deleteDesign"
    opId,             \* per call: the id argument, or the id of the design being saved
    opUpdates,        \* per call: the updates argument of updateDesign
    opDesigns,        \* per call: the list handed to AsyncStorage.setItem
    opResult,         \* per call: "none", then "success" or "error"
    savedOk,          \* ids of the designs whose saveDesign returned success
    deletedOk,        \* ids whose deleteDesign returned success
    nextId            \* designs created so far (createDesignId and Date.now())

designVars ==
    <<savedDesigns, opPc, opKind, opId, opUpdates, opDesigns, opResult, savedOk, deletedOk,
      nextId>>

VARIABLES
    \* BackupRecoveryService.restoreFromBackup and the storage it writes
    storage,          \* AsyncStorage: per key "none", "old" or "backup"
    backupFile,       \* the file at backupPath
    pendingWrites,    \* keys whose setItem is under way
    restoreResult,    \* "none", then "success" or "error"
    storedBefore,     \* storage when restoreFromBackup was called
    restorePc         \* "idle", "clearing", "writing", "done"

backupVars ==
    <<storage, backupFile, pendingWrites, restoreResult, storedBefore, restorePc>>
extraVars == <<clientVars, usageVars, designVars, backupVars>>
mainVars == <<ergoVars, parseVars, orchVars, recVars, colorVars, textVars>>
clientRest == <<mainVars, usageVars, designVars, backupVars>>
usageRest == <<mainVars, clientVars, designVars, backupVars>>
designRest == <<mainVars, clientVars, usageVars, backupVars>>
backupRest == <<mainVars, clientVars, usageVars, designVars>>
sideVars == <<recVars, colorVars, textVars, extraVars>>

vars == <<ergoVars, parseVars, orchVars, sideVars>>

-----------------------------------------------------------------------------
(* Bounds of the model                                                      *)

MaxEval == 2     \* longest ergonomic_evaluation array fed to analyzeErgonomics
MaxPrio == 2     \* longest improvement_priorities array fed to analyzeErgonomics

\* AI_CONFIG
MAX_RETRIES == 5
RETRY_DELAY_MS == 2000

-----------------------------------------------------------------------------
(* Strings                                                                  *)

UpperChars == "ABCDEFGHIJKLMNOPQRSTUVWXYZ"
LowerChars == "abcdefghijklmnopqrstuvwxyz"

\* s.substring(i - 1, j) with 1-based inclusive bounds, clamped to the string
Sub(s, i, j) ==
    LET a == IF i < 1 THEN 1 ELSE i
        b == IF j > Len(s) THEN Len(s) ELSE j
    IN  IF a > b THEN "" ELSE SubSeq(s, a, b)

\* the character at 1-based index i, "" outside the string
CharAt(s, i) == Sub(s, i, i)

\* String.prototype.toLowerCase, one character
LowerChar(c) ==
    IF \E i \in 1..26 : CharAt(UpperChars, i) = c
    THEN CharAt(LowerChars, CHOOSE i \in 1..26 : CharAt(UpperChars, i) = c)
    ELSE c

\* the least element of a non-empty set of integers
Min(S) == CHOOSE x \in S : \A y \in S : x <= y
Max(S) == CHOOSE x \in S : \A y \in S : x >= y

RECURSIVE Join(_, _, _)
\* the concatenation of the strings pieces[lo..hi] (halving, to keep the
\* evaluation shallow)
Join(pieces, lo, hi) ==
    IF lo > hi THEN ""
    ELSE IF lo = hi THEN pieces[lo]
    ELSE LET mid == (lo + hi) \div 2
         IN  Join(pieces, lo, mid) \o Join(pieces, mid + 1, hi)

\* String.prototype.toLowerCase
ToLowerCase(s) == Join([i \in 1..Len(s) |-> LowerChar(CharAt(s, i))], 1, Len(s))

\* String.prototype.includes
Includes(s, sub) ==
    \E i \in 1..(Len(s) - Len(sub) + 1) : Sub(s, i, i + Len(sub) - 1) = sub

\* Array.prototype.indexOf on a sequence, 0-based, -1 when absent
IndexOf(seq, x) ==
    IF \E i \in 1..Len(seq) : seq[i] = x
    THEN (CHOOSE i \in 1..Len(seq) : seq[i] = x /\ \A j \in 1..(i-1) : seq[j] # x) - 1
    ELSE -1

-----------------------------------------------------------------------------
(* JavaScript values                                                        *)

Undef     == [t |-> "undefined"]
Null      == [t |-> "null"]
Str(s)    == [t |-> "string", s |-> s]
Num(lex)  == [t |-> "number", s |-> lex]        \* a number, kept as its lexeme
Bool(b)   == [t |-> "boolean", b |-> b]
Arr(a)    == [t |-> "array", a |-> a]
Obj(k, v) == [t |-> "object", k |-> k, v |-> v] \* own keys in insertion order, values
Fn(name)  == [t |-> "function", s |-> name]     \* a built-in reached through a prototype

IsStr(x) == x.t = "string"
IsArr(x) == x.t = "array"

\* ToBoolean
Truthy(x) ==
    CASE x.t = "undefined" -> FALSE
      [] x.t = "null"      -> FALSE
      [] x.t = "string"    -> x.s # ""
      [] x.t = "number"    -> x.s \notin {"0", "0.0", "-0"}
      [] x.t = "boolean"   -> x.b
      [] OTHER             -> TRUE

\* a || b
Or(a, b) == IF Truthy(a) THEN a ELSE b

\* x.key throws a TypeError when x is null or undefined
Nullish(x) == x.t \in {"undefined", "null"}

\* x.key for an own data property of the values the pipeline reads
Get(x, key) ==
    IF x.t = "object" /\ \E i \in 1..Len(x.k) : x.k[i] = key
    THEN x.v[CHOOSE i \in 1..Len(x.k) : x.k[i] = key]
    ELSE Undef

\* {...x, key: val}: the own keys of x, then key (kept in place when x has it)
SpreadWith(x, key, val) ==
    LET ks == IF x.t = "object" THEN x.k ELSE <<>>
        vs == IF x.t = "object" THEN x.v ELSE <<>>
    IN  IF \E i \in 1..Len(ks) : ks[i] = key
        THEN Obj(ks, [i \in 1..Len(ks) |-> IF ks[i] = key THEN val ELSE vs[i]])
        ELSE Obj(Append(ks, key), Append(vs, val))

\* The members every object literal inherits from Object.prototype whose names
\* survive toLowerCase(); a lookup table[key] on a literal finds them too.
ObjectPrototypeKeys == {"constructor", "__proto__"}

\* table[key] on an object literal used as a lookup table (keys/vals are its own
\* entries): an own entry, else an inherited member, else undefined
Lookup(keys, vals, key) ==
    IF \E i \in 1..Len(keys) : keys[i] = key
    THEN Str(vals[CHOOSE i \in 1..Len(keys) : keys[i] = key])
    ELSE IF key \in ObjectPrototypeKeys
         THEN (IF key = "constructor" THEN Fn("Object") ELSE Obj(<<>>, <<>>))
         ELSE Undef

-----------------------------------------------------------------------------
(* JSON.parse, character by character                                       *)

\* the white space of the JSON grammar (and the \s of the model's alphabet)
IsWs(c) == c \in {" ", "\t", "\n", "\r"}
IsDigit(c) == c \in {"0", "1", "2", "3", "4", "5", "6", "7", "8", "9"}

\* the first index >= i of s that holds no white space (Len(s) + 1 at the end)
SkipWs(s, i) ==
    Min({j \in i..Len(s) : ~IsWs(CharAt(s, j))} \cup {IF i > Len(s) THEN i ELSE Len(s) + 1})

\* the first index >= i of s that holds no digit (Len(s) + 1 at the end)
SkipDigits(s, i) ==
    Min({j \in i..Len(s) : ~IsDigit(CharAt(s, j))} \cup {IF i > Len(s) THEN i ELSE Len(s) + 1})

\* the first index >= i of s holding a character of cs, 0 when there is none
FindChar(s, i, cs) ==
    LET hits == {j \in i..Len(s) : CharAt(s, j) \in cs}
    IN  IF hits = {} THEN 0 ELSE Min(hits)

\* a parse step: the value read and the index after it, or a SyntaxError
Parsed(v, i) == [ok |-> TRUE, v |-> v, i |-> i]
SyntaxError == [ok |-> FALSE, v |-> Undef, i |-> 0]

\* the character an escape \c stands for ("" when c starts no escape of the
\* model's alphabet; \b, \f and \uXXXX are not part of it)
Unescape(c) ==
    CASE c = "\"" -> "\""
      [] c = "\\" -> "\\"
      [] c = "/"  -> "/"
      [] c = "n"  -> "\n"
      [] c = "t"  -> "\t"
      [] c = "r"  -> "\r"
      [] OTHER    -> ""

RECURSIVE ParseStringBody(_, _, _)
\* the rest of a string literal from index j on, acc being what was read: plain
\* characters up to the closing quote, an escape, or a control character
ParseStringBody(s, j, acc) ==
    LET q == FindChar(s, j, {"\"", "\\", "\n", "\t", "\r"})
        c == CharAt(s, q)
    IN  IF q = 0 THEN SyntaxError
        ELSE IF c = "\"" THEN Parsed(Str(acc \o Sub(s, j, q - 1)), q + 1)
        ELSE IF c = "\\"
             THEN IF Unescape(CharAt(s, q + 1)) = "" THEN SyntaxError
                  ELSE ParseStringBody(s, q + 2,
                                       acc \o Sub(s, j, q - 1) \o Unescape(CharAt(s, q + 1)))
        ELSE SyntaxError

\* -?(0|[1-9][0-9]*)(\.[0-9]+)?([eE][+-]?[0-9]+)? starting at i
ParseNumber(s, i) ==
    LET a == IF CharAt(s, i) = "-" THEN i + 1 ELSE i
        b == IF CharAt(s, a) = "0" THEN a + 1 ELSE SkipDigits(s, a)
        fracEnd == IF CharAt(s, b) = "." THEN SkipDigits(s, b + 1) ELSE b
        fracBad == CharAt(s, b) = "." /\ fracEnd = b + 1
        e == IF CharAt(s, fracEnd) \in {"e", "E"}
             THEN (IF CharAt(s, fracEnd + 1) \in {"+", "-"} THEN fracEnd + 2
                   ELSE fracEnd + 1)
             ELSE fracEnd
        expEnd == IF CharAt(s, fracEnd) \in {"e", "E"} THEN SkipDigits(s, e) ELSE fracEnd
        expBad == CharAt(s, fracEnd) \in {"e", "E"} /\ expEnd = e
    IN  IF b = a \/ fracBad \/ expBad THEN SyntaxError
        ELSE Parsed(Num(Sub(s, i, expEnd - 1)), expEnd)

\* obj[key] = val on an object under construction: a repeated key keeps its
\* place and takes the last value
SetKey(obj, key, val) ==
    IF \E n \in 1..Len(obj.k) : obj.k[n] = key
    THEN Obj(obj.k, [n \in 1..Len(obj.k) |-> IF obj.k[n] = key THEN val ELSE obj.v[n]])
    ELSE Obj(Append(obj.k, key), Append(obj.v, val))

RECURSIVE ParseValue(_, _), ParseElements(_, _, _), ParseMembers(_, _, _)

\* a JSON value starting at or after index i (white space skipped)
ParseValue(s, i) ==
    LET j == SkipWs(s, i)
        c == CharAt(s, j)
    IN  IF j > Len(s) THEN SyntaxError
        ELSE IF c = "{"
             THEN (IF CharAt(s, SkipWs(s, j + 1)) = "}"
                   THEN Parsed(Obj(<<>>, <<>>), SkipWs(s, j + 1) + 1)
                   ELSE ParseMembers(s, j + 1, Obj(<<>>, <<>>)))
        ELSE IF c = "["
             THEN (IF CharAt(s, SkipWs(s, j + 1)) = "]"
                   THEN Parsed(Arr(<<>>), SkipWs(s, j + 1) + 1)
                   ELSE ParseElements(s, j + 1, <<>>))
        ELSE IF c = "\"" THEN ParseStringBody(s, j + 1, "")
        ELSE IF c = "-" \/ IsDigit(c) THEN ParseNumber(s, j)
        ELSE IF Sub(s, j, j + 3) = "null" THEN Parsed(Null, j + 4)
        ELSE IF Sub(s, j, j + 3) = "true" THEN Parsed(Bool(TRUE), j + 4)
        ELSE IF Sub(s, j, j + 4) = "false" THEN Parsed(Bool(FALSE), j + 5)
        ELSE SyntaxError

\* the elements of an array from index i on, acc being those read
ParseElements(s, i, acc) ==
    LET e == ParseValue(s, i)
    IN  IF ~e.ok THEN SyntaxError
        ELSE LET j == SkipWs(s, e.i)
                 c == CharAt(s, j)
             IN  IF c = "," THEN ParseElements(s, j + 1, Append(acc, e.v))
                 ELSE IF c = "]" THEN Parsed(Arr(Append(acc, e.v)), j + 1)
                 ELSE SyntaxError

\* the members of an object from index i on, acc being the object so far
ParseMembers(s, i, acc) ==
    LET j == SkipWs(s, i)
        key == IF CharAt(s, j) = "\"" THEN ParseStringBody(s, j + 1, "") ELSE SyntaxError
    IN  IF ~key.ok THEN SyntaxError
        ELSE LET c == SkipWs(s, key.i)
                 val == IF CharAt(s, c) = ":" THEN ParseValue(s, c + 1) ELSE SyntaxError
             IN  IF ~val.ok THEN SyntaxError
                 ELSE LET d == SkipWs(s, val.i)
                          next == SetKey(acc, key.v.s, val.v)
                      IN  IF CharAt(s, d) = "," THEN ParseMembers(s, d + 1, next)
                          ELSE IF CharAt(s, d) = "}" THEN Parsed(next, d + 1)
                          ELSE SyntaxError

\* JSON.parse(text): the value, or a SyntaxError when text is no JSON document
JSONParse(text) ==
    LET r == ParseValue(text, 1)
    IN  IF r.ok /\ SkipWs(text, r.i) = Len(text) + 1 THEN r ELSE SyntaxError

-----------------------------------------------------------------------------
(* AIResponseParserService.cleanText, one operator per replace() of the code *)

IsAlnum(c) ==
    \/ IsDigit(c)
    \/ \E i \in 1..26 : CharAt(UpperChars, i) = c \/ CharAt(LowerChars, i) = c
IsQuote(c) == c \in {"\"", "'"}

\* String.prototype.toUpperCase, one character
UpperChar(c) ==
    IF \E i \in 1..26 : CharAt(LowerChars, i) = c
    THEN CharAt(UpperChars, CHOOSE i \in 1..26 : CharAt(LowerChars, i) = c)
    ELSE c

\* the last index <= i of s holding no white space, 0 when there is none
LastNonWs(s, i) == Max({j \in 1..i : ~IsWs(CharAt(s, j))} \cup {0})

\* the first index >= i of s where the literal pat starts, 0 when there is none
FindLit(s, i, pat) ==
    LET hits == {j \in i..Len(s) : Sub(s, j, j + Len(pat) - 1) = pat}
    IN  IF hits = {} THEN 0 ELSE Min(hits)

\* A TLA+ string cannot hold a backquote: the model writes ~ for it, and no
\* input of the model holds a ~ of its own.
Fence == "~~~"
FenceJson == "~~~json"

RECURSIVE StripFenceJson(_, _)
\* replace(/(fence)json\s*/gi, '') from index i on: up to the leftmost match,
\* then on from its end
StripFenceJson(s, i) ==
    LET m == FindLit(ToLowerCase(s), i, FenceJson)
    IN  IF m = 0 THEN Sub(s, i, Len(s))
        ELSE Sub(s, i, m - 1) \o StripFenceJson(s, SkipWs(s, m + 7))

RECURSIVE StripFence(_, _)
\* replace(/(fence)\s*/g, '')
StripFence(s, i) ==
    LET m == FindLit(s, i, Fence)
    IN  IF m = 0 THEN Sub(s, i, Len(s))
        ELSE Sub(s, i, m - 1) \o StripFence(s, SkipWs(s, m + 3))

\* replace(/^\s*{\s*"[^"]*"\s*:\s*"([^"]*)".*}\s*$/s, '$1')
UnwrapFirstPair(s) ==
    LET a == SkipWs(s, 1)
        b == SkipWs(s, a + 1)
        c == FindChar(s, b + 1, {"\""})
        d == SkipWs(s, c + 1)
        e == SkipWs(s, d + 1)
        f == FindChar(s, e + 1, {"\""})
        g == LastNonWs(s, Len(s))
    IN  IF /\ CharAt(s, a) = "{" /\ CharAt(s, b) = "\"" /\ c > 0
           /\ CharAt(s, d) = ":" /\ CharAt(s, e) = "\"" /\ f > 0
           /\ g > f /\ CharAt(s, g) = "}"
        THEN Sub(s, e + 1, f - 1)
        ELSE s

\* replace(/^\s*{\s*([^}]*)\s*}\s*$/s, '$1') with open = "{", close = "}", and
\* replace(/^\s*\[\s*([^\]]*)\s*\]\s*$/s, '$1') with open = "[", close = "]"
Unwrap(s, open, close) ==
    LET a == SkipWs(s, 1)
        b == SkipWs(s, a + 1)
        g == FindChar(s, b, {close})
    IN  IF CharAt(s, a) = open /\ g > 0 /\ SkipWs(s, g + 1) = Len(s) + 1
        THEN Sub(s, b, g - 1)
        ELSE s

\* replace(/^[^:]*:\s*"([^"]*)".*$/s, '$1')
StripPrefixQuoted(s) ==
    LET c == FindChar(s, 1, {":"})
        e == SkipWs(s, c + 1)
        f == FindChar(s, e + 1, {"\""})
    IN  IF c > 0 /\ CharAt(s, e) = "\"" /\ f > 0 THEN Sub(s, e + 1, f - 1) ELSE s

\* replace(/^[^:]*:\s*([^,}]*).*$/s, '$1')
StripPrefixBare(s) ==
    LET c == FindChar(s, 1, {":"})
        e == SkipWs(s, c + 1)
        g == FindChar(s, e, {",", "}"})
    IN  IF c > 0 THEN Sub(s, e, (IF g > 0 THEN g ELSE Len(s) + 1) - 1) ELSE s

\* replace(/^["']|["']$/g, '')
StripSurroundingQuotes(s) ==
    LET t == IF IsQuote(CharAt(s, 1)) THEN Sub(s, 2, Len(s)) ELSE s
    IN  IF IsQuote(CharAt(t, Len(t))) THEN Sub(t, 1, Len(t) - 1) ELSE t

RECURSIVE ReplaceAll(_, _, _, _)
\* replace(/pat/g, rep) for a literal pat, from index i on
ReplaceAll(s, i, pat, rep) ==
    LET m == FindLit(s, i, pat)
    IN  IF m = 0 THEN Sub(s, i, Len(s))
        ELSE Sub(s, i, m - 1) \o rep \o ReplaceAll(s, m + Len(pat), pat, rep)

\* replace(/,\s*$/, '')
StripTrailingComma(s) ==
    LET g == LastNonWs(s, Len(s))
    IN  IF CharAt(s, g) = "," THEN Sub(s, 1, g - 1) ELSE s

\* replace(/^\s*,/, '')
StripLeadingComma(s) ==
    LET a == SkipWs(s, 1)
    IN  IF CharAt(s, a) = "," THEN Sub(s, a + 1, Len(s)) ELSE s

\* replace(/[{}[\]]/g, '') with cs = the four brackets
RemoveChars(s, cs) ==
    Join([i \in 1..Len(s) |-> IF CharAt(s, i) \in cs THEN "" ELSE CharAt(s, i)],
         1, Len(s))

\* replace(/^"category":\s*"[^"]*",?\s*/i, '') with key = "\"category\":", and
\* the same for "status"
StripKeyPair(s, key) ==
    LET e == SkipWs(s, Len(key) + 1)
        f == FindChar(s, e + 1, {"\""})
        g == IF CharAt(s, f + 1) = "," THEN f + 2 ELSE f + 1
    IN  IF ToLowerCase(Sub(s, 1, Len(key))) = key /\ CharAt(s, e) = "\"" /\ f > 0
        THEN Sub(s, SkipWs(s, g), Len(s))
        ELSE s

\* replace(/^"observation":\s*"([^"]*)".*$/i, '$1') with key =
\* "\"observation\":", and the same for "recommendation"; without the s flag
\* the dot matches no line terminator
KeepKeyValue(s, key) ==
    LET e == SkipWs(s, Len(key) + 1)
        f == FindChar(s, e + 1, {"\""})
    IN  IF /\ ToLowerCase(Sub(s, 1, Len(key))) = key /\ CharAt(s, e) = "\"" /\ f > 0
           /\ FindChar(s, f + 1, {"\n", "\r"}) = 0
        THEN Sub(s, e + 1, f - 1)
        ELSE s

RECURSIVE StripKeys(_, _)
\* replace(/"[^"]*":\s*/g, '')
StripKeys(s, i) ==
    LET starts == {j \in i..Len(s) :
                      /\ CharAt(s, j) = "\""
                      /\ FindChar(s, j + 1, {"\""}) > 0
                      /\ CharAt(s, FindChar(s, j + 1, {"\""}) + 1) = ":"}
        m == Min(starts)
    IN  IF starts = {} THEN Sub(s, i, Len(s))
        ELSE Sub(s, i, m - 1)
               \o StripKeys(s, SkipWs(s, FindChar(s, m + 1, {"\""}) + 2))

\* the last index <= i of s holding a double quote, 0 when there is none
LastQuote(s, i) == Max({j \in 1..i : CharAt(s, j) = "\""} \cup {0})

\* replace(/"\s*,?\s*$/g, '')
StripTrailingQuote(s) ==
    LET q == LastQuote(s, Len(s))
        a == SkipWs(s, q + 1)
        b == IF CharAt(s, a) = "," THEN SkipWs(s, a + 1) ELSE a
    IN  IF q > 0 /\ b = Len(s) + 1 THEN Sub(s, 1, q - 1) ELSE s

\* the first index >= i of s holding a letter or digit (Len(s) + 1 at the end)
FirstAlnum(s, i) == Min({j \in i..Len(s) : IsAlnum(CharAt(s, j))} \cup {Len(s) + 1})

\* replace(/^[^a-zA-Z0-9]*/, '')
StripLeadingNonAlnum(s) == Sub(s, FirstAlnum(s, 1), Len(s))

\* replace(/\s+/g, ' '): a blank for the first character of each run of white
\* space, nothing for the others
CollapseWs(s) ==
    Join([i \in 1..Len(s) |->
             IF ~IsWs(CharAt(s, i)) THEN CharAt(s, i)
             ELSE IF i > 1 /\ IsWs(CharAt(s, i - 1)) THEN "" ELSE " "],
         1, Len(s))

\* String.prototype.trim
Trim(s) == Sub(s, SkipWs(s, 1), LastNonWs(s, Len(s)))

\* the k-th replace() of cleanText, in the code's order
Replace(k, s) ==
    CASE k = 1  -> StripFenceJson(s, 1)
      [] k = 2  -> StripFence(s, 1)
      [] k = 3  -> UnwrapFirstPair(s)
      [] k = 4  -> Unwrap(s, "{", "}")
      [] k = 5  -> Unwrap(s, "[", "]")
      [] k = 6  -> StripPrefixQuoted(s)
      [] k = 7  -> StripPrefixBare(s)
      [] k = 8  -> StripSurroundingQuotes(s)
      [] k = 9  -> ReplaceAll(s, 1, "\\\"", "\"")
      [] k = 10 -> ReplaceAll(s, 1, "\\n", " ")
      [] k = 11 -> ReplaceAll(s, 1, "\\t", " ")
      [] k = 12 -> ReplaceAll(s, 1, "\\r", "")
      [] k = 13 -> ReplaceAll(s, 1, "\\\\", "\\")
      [] k = 14 -> StripTrailingComma(s)
      [] k = 15 -> StripLeadingComma(s)
      [] k = 16 -> RemoveChars(s, {"{", "}", "[", "]"})
      [] k = 17 -> StripKeyPair(s, "\"category\":")
      [] k = 18 -> StripKeyPair(s, "\"status\":")
      [] k = 19 -> KeepKeyValue(s, "\"observation\":")
      [] k = 20 -> KeepKeyValue(s, "\"recommendation\":")
      [] k = 21 -> StripKeys(s, 1)
      [] k = 22 -> StripTrailingQuote(s)
      [] k = 23 -> StripLeadingNonAlnum(s)
      [] k = 24 -> CollapseWs(s)
      [] OTHER  -> s

RECURSIVE Replaces(_, _)
\* the replaces from the k-th on, applied one after the other; every one of
\* them leaves the empty string empty
Replaces(s, k) ==
    IF s = "" \/ k > 24 THEN s ELSE Replaces(Replace(k, s), k + 1)

\* cleanText(text) for a string text
cleanTextString(text) ==
    LET cleaned == Trim(Replaces(text, 1))
    IN  \* empty, too short or punctuation only (the last cannot happen after the
        \* leading non-alphanumerics are gone)
        IF cleaned = "" \/ Len(cleaned) < 3 THEN ""
        ELSE UpperChar(CharAt(cleaned, 1)) \o Sub(cleaned, 2, Len(cleaned))

\* cleanText(text): '' for anything that is not a non-empty string
cleanText(text) ==
    IF ~Truthy(text) \/ ~IsStr(text) THEN Str("") ELSE Str(cleanTextString(text.s))

-----------------------------------------------------------------------------
(* AIResponseParserService: parseUnstructuredResponse, cleanAnalysisData,    *)
(* extractStructuredData                                                    *)

\* what a call did: returned the value v, or threw the value v
Returned(v) == [threw |-> FALSE, v |-> v]
Thrown(v)   == [threw |-> TRUE, v |-> v]

\* new Error(message), and the TypeError of a property read on null
Error(message) == [t |-> "error", code |-> "", message |-> message]
TypeError == Error("Cannot read property of null")

\* String(i) for an array index i < 100
Digits == "0123456789"
IndexKey(i) ==
    IF i < 10 THEN CharAt(Digits, i + 1)
    ELSE CharAt(Digits, (i \div 10) + 1) \o CharAt(Digits, (i % 10) + 1)

\* {...x}: the own enumerable properties of x as a plain object (the elements of
\* an array and the characters of a string under their indexes, nothing for
\* the other primitives)
Spread(x) ==
    CASE x.t = "object" -> x
      [] x.t = "array"  -> Obj([i \in 1..Len(x.a) |-> IndexKey(i - 1)], x.a)
      [] x.t = "string" -> Obj([i \in 1..Len(x.s) |-> IndexKey(i - 1)],
                               [i \in 1..Len(x.s) |-> Str(CharAt(x.s, i))])
      [] OTHER          -> Obj(<<>>, <<>>)

\* parseUnstructuredResponse(content)
parseUnstructuredResponse(content) ==
    Obj(<<"workspace_description", "style_assessment", "ergonomic_evaluation",
          "improvement_priorities", "color_analysis">>,
        <<Str(Sub(content, 1, 200) \o "..."),
          Obj(<<"current_style", "alignment_score", "alignment_explanation">>,
              <<Str("Modern workspace"), Num("0.7"),
                Str("Good potential for improvement")>>),
          Arr(<<>>),
          Arr(<<Str("Enhance ergonomics"), Str("Improve organization"),
                Str("Add personal touches")>>),
          Obj(<<"dominant_colors", "mood", "color_harmony">>,
              <<Arr(<<Str("#F5F5F5"), Str("#E0E0E0"), Str("#D0D0D0")>>),
                Str("focus"), Str("Neutral color scheme")>>)>>)

\* the callback of ergonomic_evaluation.map in cleanAnalysisData, for an
\* evaluation that is neither null nor undefined
cleanEvaluation(evaluation) ==
    SpreadWith(
        SpreadWith(Spread(evaluation), "observation",
                   Or(cleanText(Get(evaluation, "observation")),
                      Or(cleanText(Get(evaluation, "description")),
                         Str("Assessment in progress")))),
        "recommendation",
        Or(cleanText(Get(evaluation, "recommendation")),
           Str("Consider ergonomic improvements")))

\* the callback of the filter that follows: evaluation.category
HasCategory(evaluation) == Truthy(Get(evaluation, "category"))

\* cleanAnalysisData, "Clean workspace description"
cleanWorkspaceDescription(cleaned) ==
    IF Truthy(Get(cleaned, "workspace_description"))
    THEN SpreadWith(cleaned, "workspace_description",
                    cleanText(Get(cleaned, "workspace_description")))
    ELSE cleaned

\* {...style, current_style: cleanText(...), alignment_explanation: cleanText(...)}
cleanStyle(style) ==
    SpreadWith(SpreadWith(Spread(style), "current_style",
                          cleanText(Get(style, "current_style"))),
               "alignment_explanation", cleanText(Get(style, "alignment_explanation")))

\* cleanAnalysisData, "Clean style assessment"
cleanStyleAssessment(cleaned) ==
    IF Truthy(Get(cleaned, "style_assessment"))
    THEN SpreadWith(cleaned, "style_assessment",
                    cleanStyle(Get(cleaned, "style_assessment")))
    ELSE cleaned

\* whether the map over the entries throws: evaluation.observation on a null
\* (or undefined) entry is a TypeError
EvaluationThrows(evaluations) ==
    \E i \in 1..Len(evaluations) : Nullish(evaluations[i])

\* cleanAnalysisData, "Clean ergonomic evaluation", when the map does not throw
cleanErgonomicEvaluation(cleaned) ==
    IF Truthy(Get(cleaned, "ergonomic_evaluation"))
          /\ IsArr(Get(cleaned, "ergonomic_evaluation"))
    THEN SpreadWith(cleaned, "ergonomic_evaluation",
             Arr(SelectSeq([i \in 1..Len(Get(cleaned, "ergonomic_evaluation").a) |->
                               cleanEvaluation(Get(cleaned, "ergonomic_evaluation").a[i])],
                           HasCategory)))
    ELSE cleaned

\* cleanAnalysisData, "Clean improvement priorities"
cleanImprovementPriorities(cleaned) ==
    IF Truthy(Get(cleaned, "improvement_priorities"))
          /\ IsArr(Get(cleaned, "improvement_priorities"))
    THEN SpreadWith(cleaned, "improvement_priorities",
             Arr([i \in 1..Len(Get(cleaned, "improvement_priorities").a) |->
                     cleanText(Get(cleaned, "improvement_priorities").a[i])]))
    ELSE cleaned

\* the k-th cleaning step of cleanAnalysisData, in the code's order
cleanStep(k, cleaned) ==
    CASE k = 1 -> cleanWorkspaceDescription(cleaned)
      [] k = 2 -> cleanStyleAssessment(cleaned)
      [] k = 3 -> cleanErgonomicEvaluation(cleaned)
      [] k = 4 -> cleanImprovementPriorities(cleaned)
      [] OTHER -> cleaned

RECURSIVE cleanSteps(_, _)
\* the cleaning steps from the k-th on, applied one after the other
cleanSteps(cleaned, k) ==
    IF cleaned.k = <<>> \/ k > 4 THEN cleaned ELSE cleanSteps(cleanStep(k, cleaned), k + 1)

\* cleanAnalysisData(data): the cleaned copy, data itself when it is falsy or
\* no object, or the TypeError thrown on a null entry of ergonomic_evaluation
cleanAnalysisData(data) ==
    IF ~Truthy(data) \/ data.t \notin {"object", "array"} THEN Returned(data)
    ELSE IF /\ Truthy(Get(Spread(data), "ergonomic_evaluation"))
            /\ IsArr(Get(Spread(data), "ergonomic_evaluation"))
            /\ EvaluationThrows(Get(Spread(data), "ergonomic_evaluation").a)
         THEN Thrown(TypeError)
    ELSE Returned(cleanSteps(Spread(data), 1))

\* aiContent.match(/(fence)json\s*([\s\S]*?)\s*(fence)/): whether it matches, and
\* group 1: from the first non-blank after the first opening fence to the last
\* non-blank before the next fence
FencedJsonMatch(content) ==
    LET m == FindLit(content, 1, FenceJson)
        a == SkipWs(content, m + 7)
        f == FindLit(content, a, Fence)
    IN  IF m > 0 /\ f > 0
        THEN [found |-> TRUE, text |-> Sub(content, a, LastNonWs(content, f - 1))]
        ELSE [found |-> FALSE, text |-> ""]

\* aiContent.match(/\{[\s\S]*\}/): from the first { to the last } after it
ObjectMatch(content) ==
    LET o == FindChar(content, 1, {"{"})
        c == Max({j \in 1..Len(content) : CharAt(content, j) = "}"} \cup {0})
    IN  IF o > 0 /\ c > o
        THEN [found |-> TRUE, text |-> Sub(content, o, c)]
        ELSE [found |-> FALSE, text |-> ""]

\* extractStructuredData(aiContent), content being the text: the fenced block parsed, else the braces
\* parsed, else (no match, or JSON.parse threw) the unstructured fallback
extractStructuredData(content) ==
    LET jsonMatch == FencedJsonMatch(content)
        objectMatch == ObjectMatch(content)
        parsed == JSONParse(IF jsonMatch.found THEN jsonMatch.text ELSE objectMatch.text)
    IN  IF (jsonMatch.found \/ objectMatch.found) /\ parsed.ok THEN parsed.v
        ELSE parseUnstructuredResponse(content)

-----------------------------------------------------------------------------
(* ErgonomicAnalysisService                                                 *)

StrictnessLevels == {"lenient", "standard", "strict"}

\* normalizeCategory's categoryMap
CategoryMapKeys ==
    << "desk-height", "desk_height", "deskheight",
       "chair-posture", "chair_posture", "chairposture", "chair", "posture",
       "lighting", "light", "illumination",
       "screen-position", "screen_position", "screenposition", "monitor", "display",
       "organization", "organisation", "clutter", "storage" >>
CategoryMapVals ==
    << "desk-height", "desk-height", "desk-height",
       "chair-posture", "chair-posture", "chair-posture", "chair-posture", "chair-posture",
       "lighting", "lighting", "lighting",
       "screen-position", "screen-position", "screen-position", "screen-position",
       "screen-position",
       "organization", "organization", "organization", "organization" >>

\* normalizeCategory(category) for a string category; Null when unresolved
normalizeCategory(category) ==
    Or(Lookup(CategoryMapKeys, CategoryMapVals, ToLowerCase(category)), Null)

\* normalizeStatus's statusMap, one table per strictness level
StatusMapKeys(strictness) ==
    CASE strictness = "lenient" ->
           << "good", "ok", "acceptable", "needs-improvement", "fair", "poor", "bad" >>
      [] strictness = "standard" ->
           << "good", "excellent", "ok", "acceptable", "needs-improvement", "fair",
              "poor", "bad" >>
      [] strictness = "strict" ->
           << "excellent", "good", "ok", "acceptable", "needs-improvement", "fair",
              "poor", "bad" >>
StatusMapVals(strictness) ==
    CASE strictness = "lenient" ->
           << "good", "good", "good", "needs-improvement", "needs-improvement",
              "poor", "poor" >>
      [] strictness = "standard" ->
           << "good", "good", "needs-improvement", "needs-improvement",
              "needs-improvement", "needs-improvement", "poor", "poor" >>
      [] strictness = "strict" ->
           << "good", "needs-improvement", "needs-improvement", "poor", "poor", "poor",
              "poor", "poor" >>

\* normalizeStatus(status, strictness) for a string status
normalizeStatus(status, strictness) ==
    Or(Lookup(StatusMapKeys(strictness), StatusMapVals(strictness), ToLowerCase(status)),
       Str("needs-improvement"))

\* String(x) as a property key or inside a template literal
ToKey(x) ==
    CASE x.t = "string"   -> x.s
      [] x.t = "function" -> "function " \o x.s \o "() { [native code] }"
      [] OTHER            -> "[object Object]"

CanonicalCategories ==
    << "desk-height", "chair-posture", "lighting", "screen-position", "organization" >>
CanonicalStatuses == << "good", "needs-improvement", "poor" >>

\* generateTitle's titles table, by category then status (good, needs-improvement, poor)
Titles ==
    << << "Desk Height Optimal", "Desk Height Adjustment Needed",
          "Desk Height Requires Attention" >>,
       << "Chair & Posture Excellent", "Chair Setup Needs Improvement",
          "Chair & Posture Issues Detected" >>,
       << "Lighting Conditions Good", "Lighting Could Be Enhanced",
          "Lighting Needs Immediate Attention" >>,
       << "Screen Position Optimal", "Screen Position Adjustment Needed",
          "Screen Position Problematic" >>,
       << "Workspace Well Organized", "Organization Opportunities",
          "Workspace Needs Organization" >> >>

generateTitle(category, status) ==
    LET c == IndexOf(CanonicalCategories, ToKey(category))
        s == IndexOf(CanonicalStatuses, ToKey(status))
    IN  IF c >= 0 /\ s >= 0 THEN Titles[c + 1][s + 1]
        ELSE ToKey(category) \o " Assessment"

\* generateRecommendation's recommendations table, by category then
\* needs-improvement / poor
Recommendations ==
    << << << "Adjust desk height so elbows are at 90° when typing",
             "Consider a height-adjustable desk or keyboard tray",
             "Ensure feet are flat on floor or footrest" >>,
          << "Immediately adjust desk height - current setup may cause strain",
             "Use a standing desk converter or adjustable keyboard tray",
             "Consider ergonomic assessment for proper measurements" >> >>,
       << << "Adjust chair height and back angle for better lumbar support",
             "Ensure chair back supports natural spine curve",
             "Consider ergonomic chair with adjustable features" >>,
          << "Replace chair or add lumbar support immediately",
             "Adjust chair settings: height, back angle, armrests",
             "Take regular breaks to prevent long-term strain" >> >>,
       << << "Add task lighting to reduce eye strain",
             "Position light source to minimize screen glare",
             "Consider adjustable desk lamp with warm light" >>,
          << "Improve lighting immediately - current setup strains eyes",
             "Add multiple light sources for even illumination",
             "Position screen perpendicular to windows to reduce glare" >> >>,
       << << "Adjust monitor height so top is at eye level",
             "Position screen 50-70cm away from eyes",
             "Tilt screen slightly backward (10-20°)" >>,
          << "Reposition screen immediately to prevent neck strain",
             "Use monitor arm or stand for proper height adjustment",
             "Ensure screen is directly in front, not to the side" >> >>,
       << << "Add storage solutions to reduce desktop clutter",
             "Organize frequently used items within arm's reach",
             "Create designated spaces for different work materials" >>,
          << "Declutter workspace immediately for better focus",
             "Implement filing system for papers and supplies",
             "Remove unnecessary items from work surface" >> >> >>

\* The values Math.floor(Math.random() * 3) can take
RandomIndex == 0..2

\* generateRecommendation(category, status, config); r is the index that
\* Math.floor(Math.random() * statusRecs.length) yields for a list of 3
generateRecommendation(category, status, r) ==
    LET c == IndexOf(CanonicalCategories, ToKey(category))
        s == IndexOf(<<"needs-improvement", "poor">>, ToKey(status))
    IN  IF c < 0 \/ status = Str("good")
        THEN Str("Maintain current setup and monitor for changes")
        ELSE IF s < 0
             THEN Str("Consider ergonomic improvements for better comfort")
             ELSE Str(Recommendations[c + 1][s + 1][r + 1])

\* x.length of the values a recommendation can be
LengthOf(x) == IF x.t = "string" THEN Len(x.s) ELSE IF x.t = "array" THEN Len(x.a) ELSE -1

\* enhanceRecommendation(baseRecommendation, category, status, config)
enhanceRecommendation(baseRecommendation, category, status, r) ==
    IF Truthy(baseRecommendation) /\ LengthOf(baseRecommendation) > 20
    THEN baseRecommendation
    ELSE generateRecommendation(category, status, r)

Insight(category, status, title, description, recommendation) ==
    [category |-> category, status |-> status, title |-> title,
     description |-> description, recommendation |-> recommendation]

\* processErgonomicItem(item, config): the insight, or Null when the category
\* is unresolved or the body throws (item null/undefined, or a category or
\* status that has no toLowerCase)
processErgonomicItem(item, strictness, r) ==
    IF Nullish(item) \/ ~IsStr(Get(item, "category")) THEN Null
    ELSE LET category == normalizeCategory(Get(item, "category").s)
         IN  IF ~Truthy(category) THEN Null
             ELSE IF ~IsStr(Get(item, "status")) THEN Null
             ELSE LET status == normalizeStatus(Get(item, "status").s, strictness)
                  IN  Insight(category, status, generateTitle(category, status),
                              Or(Get(item, "observation"),
                                 Or(Get(item, "description"), Str("Assessment in progress"))),
                              enhanceRecommendation(Get(item, "recommendation"),
                                                    category, status, r))

\* parseImprovement's categoryMappings, in Object.entries order
CategoryMappingKeys ==
    << "ergonomic", "posture", "chair", "desk", "height", "light", "illumination",
       "screen", "monitor", "display", "organization", "clutter", "storage" >>
CategoryMappingVals ==
    << "chair-posture", "chair-posture", "chair-posture", "desk-height", "desk-height",
       "lighting", "lighting", "screen-position", "screen-position", "screen-position",
       "organization", "organization", "organization" >>

\* parseImprovement(improvement, priority, config) for a string improvement;
\* priority is the 0-based index of the string in improvement_priorities
parseImprovement(improvement, priority, r) ==
    LET lowerImprovement == ToLowerCase(improvement)
        hits == {i \in 1..Len(CategoryMappingKeys) :
                    Includes(lowerImprovement, CategoryMappingKeys[i])}
    IN  IF hits = {} THEN Null
        ELSE LET first == CHOOSE i \in hits : \A j \in hits : i <= j
                 detectedCategory == Str(CategoryMappingVals[first])
                 status == IF priority = 0 THEN Str("poor") ELSE Str("needs-improvement")
             IN  Insight(detectedCategory, status,
                         generateTitle(detectedCategory, status),
                         Str(improvement),
                         generateRecommendation(detectedCategory, status, r))

\* the non-null elements of a sequence, in order
RECURSIVE DropNull(_)
DropNull(seq) ==
    IF seq = <<>> THEN <<>>
    ELSE IF Head(seq) = Null THEN DropNull(Tail(seq))
    ELSE <<Head(seq)>> \o DropNull(Tail(seq))

\* extractInsightsFromPriorities(priorities, config); rs[i] is the random index
\* of the i-th call
extractInsightsFromPriorities(priorities, rs) ==
    DropNull([i \in 1..Len(priorities) |-> parseImprovement(priorities[i].s, i - 1, rs[i])])

\* getMissingCategories(coveredCategories)
getMissingCategories(coveredCategories) ==
    SelectSeq([i \in 1..5 |-> Str(CanonicalCategories[i])],
              LAMBDA c : \A j \in 1..Len(coveredCategories) : coveredCategories[j] # c)

\* generateDefaultInsight(category, config)
generateDefaultInsight(category) ==
    Insight(category, Str("good"), generateTitle(category, Str("good")),
            Str("No specific issues identified in this area."), Undef)

PriorityOrder == << "poor", "needs-improvement", "good" >>
CategoryOrder ==
    << "chair-posture", "desk-height", "screen-position", "lighting", "organization" >>

\* the comparator of prioritizeInsights: negative, zero or positive
CompareInsights(a, b) ==
    LET statusDiff == IndexOf(PriorityOrder, ToKey(a.status))
                        - IndexOf(PriorityOrder, ToKey(b.status))
    IN  IF statusDiff # 0 THEN statusDiff
        ELSE IndexOf(CategoryOrder, ToKey(a.category))
               - IndexOf(CategoryOrder, ToKey(b.category))

\* stable insertion of x into a sequence sorted by CompareInsights
RECURSIVE InsertSorted(_, _)
InsertSorted(sorted, x) ==
    IF sorted = <<>> THEN <<x>>
    ELSE IF CompareInsights(x, sorted[Len(sorted)]) >= 0 THEN Append(sorted, x)
    ELSE Append(InsertSorted(SubSeq(sorted, 1, Len(sorted) - 1), x), sorted[Len(sorted)])

RECURSIVE SortInsights(_)
SortInsights(insights) ==
    IF insights = <<>> THEN <<>>
    ELSE InsertSorted(SortInsights(SubSeq(insights, 1, Len(insights) - 1)),
                      insights[Len(insights)])

\* prioritizeInsights without the sort
prioritizeInsightsUnsorted(insights) == insights

\* prioritizeInsights(insights, config): Array.prototype.sort (stable) with the
\* comparator above
prioritizeInsights(insights) == SortInsights(insights)

\* analyzeErgonomics(analysisData, config). re[i] / rp[i] are the random indexes
\* drawn while processing the i-th evaluation entry / the i-th priority.
\* The catch block returns [] when the body throws: analysisData null or
\* undefined, or a priority that is not a string.
analyzeErgonomics(analysisData, strictness, re, rp) ==
    IF Nullish(analysisData) THEN <<>>
    ELSE
    LET ee == Get(analysisData, "ergonomic_evaluation")
        ip == Get(analysisData, "improvement_priorities")
        fromEval ==
            IF Truthy(ee) /\ IsArr(ee)
            THEN DropNull([i \in 1..Len(ee.a) |->
                              processErgonomicItem(ee.a[i], strictness, re[i])])
            ELSE <<>>
        prioThrows ==
            Truthy(ip) /\ IsArr(ip) /\ \E i \in 1..Len(ip.a) : ~IsStr(ip.a[i])
        fromPrio ==
            IF Truthy(ip) /\ IsArr(ip) THEN extractInsightsFromPriorities(ip.a, rp)
            ELSE <<>>
        insights == fromEval \o fromPrio
        coveredCategories == [i \in 1..Len(insights) |-> insights[i].category]
        missingCategories == getMissingCategories(coveredCategories)
        defaults == [i \in 1..Len(missingCategories) |->
                        generateDefaultInsight(missingCategories[i])]
    IN  IF prioThrows THEN <<>>
        ELSE prioritizeInsights(insights \o defaults)

-----------------------------------------------------------------------------
(* Inputs of the ergonomic engine                                           *)

LongRecommendation == "Raise the monitor on a stand to eye level."
ShortRecommendation == "Fix it"

EvalItem(c, s, r) ==
    Obj(<<"category", "status", "observation", "recommendation">>,
        <<c, s, Str("Seen in the photo."), r>>)

\* ergonomic_evaluation entries: every status word of the tables and an
\* unrecognised one on one category, several raw categories (a synonym, mixed
\* case, an unknown word, an inherited key) on one status, and entries that are
\* not well-formed objects
RawStatusWords ==
    {"good", "ok", "acceptable", "excellent", "needs-improvement", "fair", "Poor",
     "bad", "so-so", "constructor"}
RawCategoryWords == {"chair", "Lighting", "keyboard", "constructor"}

RECURSIVE SeqsUpTo(_, _)
SeqsUpTo(S, n) ==
    IF n = 0 THEN {<<>>}
    ELSE LET shorter == SeqsUpTo(S, n - 1)
         IN  shorter \cup {Append(q, x) : q \in {p \in shorter : Len(p) = n - 1}, x \in S}

\* entries of one-element arrays: every status word on one category, an entry
\* without a recommendation, a category written with an underscore
StatusItems ==
    {EvalItem(Str("chair"), Str(s), Str(ShortRecommendation)) : s \in RawStatusWords}
    \cup {EvalItem(Str("monitor"), Str("fair"), Undef),
          EvalItem(Str("desk_height"), Str("poor"), Str(LongRecommendation))}

\* entries of arrays of any length up to MaxEval
CoreItems ==
    {EvalItem(Str(c), Str("poor"), Str(LongRecommendation)) : c \in RawCategoryWords}
    \cup {EvalItem(Str("chair"), Str("excellent"), Str(ShortRecommendation))}

EvalArrays ==
    SeqsUpTo(CoreItems, MaxEval) \cup {<<x>> : x \in StatusItems}

PriorityStrings ==
    {"Improve lighting near the desk", "Add a lumbar cushion to the Chair",
     "Add personal touches"}

ErgoInputs ==
    {Obj(<<"ergonomic_evaluation", "improvement_priorities">>,
         <<Arr(ee), Arr([i \in 1..Len(ip) |-> Str(ip[i])])>>) :
        ee \in EvalArrays, ip \in SeqsUpTo(PriorityStrings, MaxPrio)}

\* The calls of Math.random whose value reaches the result: the entries /
\* priorities whose insight depends on the index drawn. The other draws are
\* fixed at 0, which loses no outcome.
EvalDraws(analysisData, strictness) ==
    LET ee == Get(analysisData, "ergonomic_evaluation")
    IN  IF Truthy(ee) /\ IsArr(ee)
        THEN {i \in 1..Len(ee.a) : processErgonomicItem(ee.a[i], strictness, 0)
                                      # processErgonomicItem(ee.a[i], strictness, 1)}
        ELSE {}
PrioDraws(analysisData) ==
    LET ip == Get(analysisData, "improvement_priorities")
    IN  IF Truthy(ip) /\ IsArr(ip)
        THEN {i \in 1..Len(ip.a) : IsStr(ip.a[i])
                                     /\ parseImprovement(ip.a[i].s, i - 1, 0) # Null}
        ELSE {}
RandomDraws(used, n) ==
    {[i \in 1..n |-> IF i \in used THEN f[i] ELSE 0] : f \in [used -> RandomIndex]}

-----------------------------------------------------------------------------
(* The ergonomic engine as a state machine: one call of analyzeErgonomics    *)

\* no call of analyzeErgonomics under way
ErgoIdle ==
    /\ ergoIn = Undef
    /\ ergoCfg = "standard"
    /\ ergoOut = <<>>
    /\ ergoPc = "idle"

\* no pass of the parser under way
ParseIdle ==
    /\ parseIn = ""
    /\ parseData = Undef
    /\ parseOut = Returned(Undef)
    /\ parsePc = "idle"

\* no invocation of analyzeWorkspace under way
OrchIdle ==
    /\ pc = "idle"
    /\ attempt = 0
    /\ lastError = Null
    /\ photo = [readable |-> TRUE, length |-> 1]
    /\ openai = FALSE
    /\ aiContent = Null
    /\ cleanedAnalysisData = Undef
    /\ progress = 0
    /\ isAnalyzing = FALSE
    /\ outcome = Null
    /\ started = 0
    /\ succeeded = 0
    /\ inFlight = 0
    /\ raised = Null
    /\ delays = <<>>
    /\ reported = <<>>

\* no run of the recommendation service under way
RecIdle ==
    /\ quizResponses = <<>>
    /\ promptContext = Undef
    /\ recommendations = Returned(Undef)
    /\ recPc = "idle"

\* no run of the color extraction under way
ColorIdle ==
    /\ colorConfig = [maxColors |-> 6, ignoreWhite |-> TRUE, ignoreBlack |-> TRUE]
    /\ pixels = <<>>
    /\ dominantColors = <<>>
    /\ palette = Undef
    /\ colorPc = "idle"

\* no text being cleaned
TextIdle ==
    /\ textIn = ""
    /\ textOnce = Undef
    /\ textTwice = Undef
    /\ textPc = "idle"

\* no request through OpenAIClientService under way, nothing cached
ClientIdle ==
    /\ openaiClient = Null
    /\ cachedApiKey = Null
    /\ now = 0
    /\ issued = 0
    /\ staleUpTo = 0
    /\ lastCall = Null
    /\ clientPc = "idle"

\* handlers of the screens that can start an analysis
MaxCalls == 2
Handlers == 1..MaxCalls

\* no handler running, nothing stored
UsageIdle ==
    /\ usageTracking = Null
    /\ earlier = 0
    /\ callPc = [p \in Handlers |-> "idle"]
    /\ callFlow = [p \in Handlers |-> "none"]
    /\ callUsage = [p \in Handlers |-> Null]
    /\ recordedFor = {}
    /\ analysesStarted = {}

\* concurrent calls on DesignStorageService
MaxOps == 2
Callers == 1..MaxOps

\* no call on DesignStorageService running, nothing stored
DesignIdle ==
    /\ savedDesigns = <<>>
    /\ opPc = [p \in Callers |-> "idle"]
    /\ opKind = [p \in Callers |-> "none"]
    /\ opId = [p \in Callers |-> 0]
    /\ opUpdates = [p \in Callers |-> Null]
    /\ opDesigns = [p \in Callers |-> <<>>]
    /\ opResult = [p \in Callers |-> "none"]
    /\ savedOk = {}
    /\ deletedOk = {}
    /\ nextId = 0

\* STORAGE_KEYS
StorageKeys ==
    {"@home_harmony_user_preferences", "@home_harmony_saved_designs",
     "@home_harmony_usage_tracking", "@home_harmony_app_data", "@home_harmony_quiz_data"}

\* no restore running, nothing stored
BackupIdle ==
    /\ storage = [k \in StorageKeys |-> "none"]
    /\ backupFile = Null
    /\ pendingWrites = {}
    /\ restoreResult = "none"
    /\ storedBefore = [k \in StorageKeys |-> "none"]
    /\ restorePc = "idle"

ExtraIdle == ClientIdle /\ UsageIdle /\ DesignIdle /\ BackupIdle
MainIdle == ErgoIdle /\ ParseIdle /\ OrchIdle /\ RecIdle /\ ColorIdle /\ TextIdle
SideIdle == RecIdle /\ ColorIdle /\ TextIdle /\ ExtraIdle

ErgoInit ==
    /\ ergoIn \in ErgoInputs
    /\ ergoCfg \in StrictnessLevels
    /\ ergoOut = <<>>
    /\ ergoPc = "input"
    /\ ParseIdle
    /\ OrchIdle
    /\ SideIdle

\* the call ErgonomicAnalysisService.analyzeErgonomics(ergoIn, config)
AnalyzeErgonomics ==
    /\ ergoPc = "input"
    /\ \E re \in RandomDraws(EvalDraws(ergoIn, ergoCfg), MaxEval),
          rp \in RandomDraws(PrioDraws(ergoIn), MaxPrio) :
          ergoOut' = analyzeErgonomics(ergoIn, ergoCfg, re, rp)
    /\ ergoPc' = "done"
    /\ UNCHANGED <<ergoIn, ergoCfg, parseVars, orchVars, sideVars>>

ErgoNext == AnalyzeErgonomics

SpecErgo == ErgoInit /\ [][ErgoNext]_vars

-----------------------------------------------------------------------------
(* Raw model texts                                                          *)

\* JSON documents and near-documents a model may answer with
CompleteJson ==
    "{\"workspace_description\": \"a tidy desk by a window.\", "
      \o "\"style_assessment\": {\"current_style\": \"modern\", \"alignment_score\": 0.8, "
      \o "\"alignment_explanation\": \"Matches the calm palette.\"}, "
      \o "\"ergonomic_evaluation\": [{\"category\": \"chair\", \"status\": \"poor\", "
      \o "\"observation\": \"The seat is low.\", \"recommendation\": \"Raise it\"}, "
      \o "{\"category\": \"Lighting\", \"status\": \"excellent\", "
      \o "\"description\": \"Plenty of daylight.\"}], "
      \o "\"improvement_priorities\": [\"Improve lighting near the desk\", "
      \o "\"Add a lumbar cushion to the Chair\"], "
      \o "\"color_analysis\": {\"dominant_colors\": [\"#FFFFFF\"], \"mood\": \"calm\"}}"

OneEntryJson ==
    "{\"workspace_description\": \"a tidy desk\", \"ergonomic_evaluation\": "
      \o "[{\"category\": \"chair\", \"status\": \"poor\", \"recommendation\": \"Raise it\"}]}"
MinimalJson == "{\"workspace_description\": \"A tidy desk.\"}"
NullEntryJson == "{\"ergonomic_evaluation\": [null]}"
EmptyRecommendationJson ==
    "{\"workspace_description\": \"A tidy desk.\", \"ergonomic_evaluation\": "
      \o "[{\"category\": \"chair\", \"status\": \"poor\", \"recommendation\": \"\"}]}"

JsonBodies ==
    {CompleteJson,
     OneEntryJson,
     MinimalJson,
     "{}",
     NullEntryJson,
     "{\"workspace_description\": \"A desk\", \"ergonomic_evaluation\": "
       \o "[{\"category\": \"desk\", \"status\": \"ok\"}, null]}",
     "null",
     "\"Just a sentence.\"",
     "[1, 2]",
     "{\"workspace_description\": \"A desk\"",
     "{\"workspace_description\": \"A desk\",}",
     "{\"workspace_description\": \"\", \"style_assessment\": \"modern\"}",
     "{\"workspace_description\": 5, \"ergonomic_evaluation\": \"none\", "
       \o "\"improvement_priorities\": [3, \"desk: \\\"too high\\\"\"]}",
     "{\"workspace_description\": \"A desk\", \"ergonomic_evaluation\": "
       \o "[{\"category\": \"constructor\", \"status\": \"good\"}, \"chair\", "
       \o "{\"status\": \"poor\"}]}"}

\* how the document sits in the text: alone, in a json fence, in a json fence
\* amid prose, amid prose without a fence, in a fence without the json tag, in
\* a fence never closed, after a json fence that holds no JSON
Wrap(kind, body) ==
    CASE kind = "bare"         -> body
      [] kind = "fenced"       -> FenceJson \o "\n" \o body \o "\n" \o Fence
      [] kind = "fencedProse"  -> "Here is the analysis:\n" \o FenceJson \o "\n" \o body
                                    \o "\n" \o Fence \o "\nLet me know."
      [] kind = "prose"        -> "Result: " \o body \o " as requested"
      [] kind = "plainFence"   -> Fence \o "\n" \o body \o "\n" \o Fence
      [] kind = "openFence"    -> FenceJson \o "\n" \o body
      [] kind = "afterBadFence" -> FenceJson \o "\nsee below\n" \o Fence \o "\n" \o body

WrapKinds ==
    {"bare", "fenced", "fencedProse", "prose", "plainFence", "openFence", "afterBadFence"}

Prose == {"", "   ", "The desk looks tidy and the chair is set too low."}

RawTexts == {Wrap(kind, body) : kind \in WrapKinds, body \in JsonBodies} \cup Prose

-----------------------------------------------------------------------------
(* The parser as a state machine: extractStructuredData, then                *)
(* cleanAnalysisData, as performAnalysis calls them                          *)

ParseInit ==
    /\ parseIn \in RawTexts
    /\ parseData = Undef
    /\ parseOut = Returned(Undef)
    /\ parsePc = "input"
    /\ ErgoIdle
    /\ OrchIdle
    /\ SideIdle

\* analysisData = extractStructuredData(aiContent)
ExtractStructuredData ==
    /\ parsePc = "input"
    /\ parseData' = extractStructuredData(parseIn)
    /\ parsePc' = "extracted"
    /\ UNCHANGED <<parseIn, parseOut, ergoVars, orchVars, sideVars>>

\* cleanedAnalysisData = cleanAnalysisData(analysisData)
CleanAnalysisData ==
    /\ parsePc = "extracted"
    /\ parseOut' = cleanAnalysisData(parseData)
    /\ parsePc' = IF parseOut'.threw THEN "threw" ELSE "cleaned"
    /\ UNCHANGED <<parseIn, parseData, ergoVars, orchVars, sideVars>>

ParseNext == ExtractStructuredData \/ CleanAnalysisData

SpecParse == ParseInit /\ [][ParseNext]_vars

-----------------------------------------------------------------------------
(* AIImageProcessingService, OpenAIClientService and the steps of            *)
(* AIAnalysisService.performAnalysis                                         *)

\* one megabyte, 1024 * 1024 bytes
Megabyte == 1024 * 1024

\* validateImageForAI(imageUri), the file having photo.length bytes or being
\* unreadable
validateImageForAI(file) ==
    IF ~file.readable
    THEN [isValid |-> FALSE, error |-> "Unable to validate image file"]
    ELSE IF file.length > 20 * Megabyte     \* sizeInMB > 20
    THEN [isValid |-> FALSE, error |-> "Image size exceeds 20MB limit for AI processing"]
    ELSE IF file.length = 0
    THEN [isValid |-> FALSE, error |-> "Image file is empty or corrupted"]
    ELSE [isValid |-> TRUE, error |-> ""]

\* OpenAIClientService.createError(code, message)
OpenAIClientService_createError(code, message) ==
    [t |-> "error", code |-> code, message |-> message,
     retryable |-> code \in {"NETWORK_ERROR", "TIMEOUT_ERROR", "API_ERROR",
                             "RATE_LIMIT_ERROR"}]

\* AIAnalysisService.createError(code, message)
AIAnalysisService_createError(code, message) ==
    [t |-> "error", code |-> code, message |-> message,
     retryable |-> code \in {"NETWORK_ERROR", "TIMEOUT_ERROR", "API_ERROR"}]

\* the codes of AIAnalysisError
ErrorCodes ==
    {"NETWORK_ERROR", "API_ERROR", "TIMEOUT_ERROR", "INVALID_IMAGE", "QUOTA_EXCEEDED",
     "UNKNOWN_ERROR", "RATE_LIMIT_ERROR", "INVALID_API_KEY"}

\* the catch block of analyzeImageWithPrompt, on an Error with this message
classifyError(message) ==
    IF Includes(message, "rate limit")
    THEN OpenAIClientService_createError("RATE_LIMIT_ERROR",
             "API rate limit exceeded. Please try again later.")
    ELSE IF Includes(message, "invalid_api_key")
    THEN OpenAIClientService_createError("INVALID_API_KEY", "Invalid OpenAI API key.")
    ELSE IF Includes(message, "insufficient_quota")
    THEN OpenAIClientService_createError("QUOTA_EXCEEDED", "OpenAI API quota exceeded.")
    ELSE IF Includes(message, "timeout")
    THEN OpenAIClientService_createError("TIMEOUT_ERROR",
             "Request timed out. Please try again.")
    ELSE IF Includes(message, "network") \/ Includes(message, "fetch")
    THEN OpenAIClientService_createError("NETWORK_ERROR",
             "Network error. Please check your connection.")
    ELSE IF Includes(message, "Proxy connection failed")
    THEN OpenAIClientService_createError("NETWORK_ERROR",
             "Unable to connect to secure proxy. Please check your internet connection.")
    ELSE IF Includes(message, "Proxy API error")
    THEN OpenAIClientService_createError("INVALID_API_KEY",
             "Authentication failed. Please check your access token configuration.")
    ELSE OpenAIClientService_createError("API_ERROR", "OpenAI API error: " \o message)

\* AIAnalysisService.extractColorPalette: the palette taken from the image, else
\* the colors of the analysis, else undefined (also when reading the analysis
\* throws)
extractColorPalette(analysisData, extracted) ==
    IF extracted THEN Str("extracted")
    ELSE IF Truthy(Get(Get(analysisData, "color_analysis"), "dominant_colors"))
    THEN Str("Workspace Colors")
    ELSE Undef

\* x?.key
OptionalGet(x, key) == IF Nullish(x) THEN Undef ELSE Get(x, key)

\* the object performAnalysis returns (id, recommendations, createdAt and
\* processingTime left out), or the TypeError of
\* cleanedAnalysisData.workspace_description on null
assembleResult(analysisData, colorPalette, ergonomicInsights) ==
    IF Nullish(analysisData) THEN Thrown(TypeError)
    ELSE Returned(
        [summary |-> Or(cleanText(Get(analysisData, "workspace_description")),
                        Str("Workspace analysis completed")),
         colorPalette |-> colorPalette,
         ergonomicInsights |-> ergonomicInsights,
         styleMatch |->
            [vibe |-> Or(cleanText(OptionalGet(Get(analysisData, "style_assessment"),
                                               "current_style")),
                         Str("Modern workspace")),
             confidence |-> Or(OptionalGet(Get(analysisData, "style_assessment"),
                                           "alignment_score"),
                               Num("0.7")),
             explanation |-> Or(cleanText(OptionalGet(Get(analysisData, "style_assessment"),
                                                      "alignment_explanation")),
                                Str("Good style alignment"))]])

\* the retry loop goes on after a failed attempt: attempt < MAX_RETRIES
ShouldRetryOnceMore(n) == n <= MAX_RETRIES
ShouldRetry(n) == n < MAX_RETRIES

\* the message of the error thrown when the loop is exhausted
terminalMessageUnknown(error) ==
    "Analysis failed after " \o IndexKey(MAX_RETRIES) \o " attempts: Unknown error"
terminalMessage(error) ==
    "Analysis failed after " \o IndexKey(MAX_RETRIES) \o " attempts: "
        \o (IF error = Null \/ error.message = "" THEN "Unknown error" ELSE error.message)

-----------------------------------------------------------------------------
(* What the surroundings can do                                             *)

\* the photo file: unreadable, empty, exactly 20 MB, one byte more
PhotoFiles ==
    {[readable |-> FALSE, length |-> 0]}
    \cup {[readable |-> TRUE, length |-> n] : n \in {0, 20 * Megabyte, 20 * Megabyte + 1}}

\* messages of the errors the OpenAI client throws
ApiErrorMessages ==
    {"429 rate limit reached for requests", "401 invalid_api_key", "Request timeout",
     "500 internal server error", "429 insufficient_quota"}

\* messages of the errors fetchApiKeyFromProxy throws
ProxyErrorMessages == {"Proxy connection failed: Network request failed"}

\* texts the Vision Model answers with
ModelTexts ==
    {Wrap("fenced", OneEntryJson),
     "The desk looks tidy.",
     Wrap("fenced", "null"),
     Wrap("bare", NullEntryJson),
     Wrap("bare", EmptyRecommendationJson)}

\* the length of an array, 0 for anything else
ArrLen(x) == IF IsArr(x) THEN Len(x.a) ELSE 0

-----------------------------------------------------------------------------
(* analyzeWorkspace as a state machine: one action per stretch between two   *)
(* awaits. The screen's handler (handleRerunAnalysisComplete) starts the call *)
(* and takes its settlement; onCancel is the modal's cancel button.          *)

Init ==
    /\ pc = "idle"
    /\ attempt = 0
    /\ lastError = Null
    /\ photo \in PhotoFiles
    /\ openai = FALSE
    /\ aiContent = Null
    /\ cleanedAnalysisData = Undef
    /\ progress = 0
    /\ isAnalyzing = FALSE
    /\ outcome = Null
    /\ started = 0
    /\ succeeded = 0
    /\ inFlight = 0
    /\ raised = Null
    /\ delays = <<>>
    /\ reported = <<>>
    /\ ErgoIdle
    /\ ParseIdle
    /\ SideIdle

\* the values analyzeWorkspace reports ahead of its loop, and those
\* performAnalysis reports, in the order of the code
AnalyzeWorkspaceProgress == <<10, 20>>
PerformAnalysisProgressSwapped == <<30, 50, 70, 85, 80, 90>>
PerformAnalysisProgress == <<30, 50, 70, 80, 85, 90>>

\* the start of performAnalysis for attempt n: progress 30, then the await of
\* validateImageForAI
BeginAttempt(n) ==
    /\ attempt' = n
    /\ started' = started + 1
    /\ progress' = 30
    /\ reported' = (IF n = 1 THEN AnalyzeWorkspaceProgress ELSE <<>>)
                       \o SubSeq(PerformAnalysisProgress, 1, 1)
    /\ aiContent' = Null
    /\ cleanedAnalysisData' = Undef
    /\ pc' = "validating"

\* a constant delay between attempts
retryDelayFlat(n) == RETRY_DELAY_MS

\* the argument of delay() after failed attempt n
retryDelay(n) == RETRY_DELAY_MS * n

\* performAnalysis throws error after reporting the values said: the catch
\* block of analyzeWorkspace, then either the await of
\* delay(RETRY_DELAY_MS * attempt) or the throw after the loop, which the
\* handler's catch takes
Fail(error, said) ==
    /\ raised' = error
    /\ lastError' = error
    /\ reported' = reported \o said \o (IF ShouldRetry(attempt) THEN <<15>> ELSE <<>>)
    /\ IF ShouldRetry(attempt)
       THEN /\ progress' = 15
            /\ delays' = Append(delays, retryDelay(attempt))
            /\ pc' = "delaying"
            /\ UNCHANGED <<outcome, isAnalyzing>>
       ELSE /\ outcome' = Thrown(Error(terminalMessage(lastError')))
            /\ isAnalyzing' = FALSE
            /\ pc' = "thrown"
            /\ UNCHANGED <<progress, delays>>
    /\ UNCHANGED <<attempt, started, succeeded, photo>>

\* the handler sets isAnalyzing and calls analyzeWorkspace: progress 10, the
\* prompt context, progress 20, and the first attempt begins
AnalyzeWorkspace ==
    /\ pc = "idle"
    /\ isAnalyzing' = TRUE
    /\ BeginAttempt(1)
    /\ UNCHANGED <<lastError, photo, openai, outcome, succeeded, inFlight, raised,
                   delays, ergoVars, parseVars, sideVars>>

\* validateImageForAI has answered
ValidateImageReturns ==
    /\ pc = "validating"
    /\ IF validateImageForAI(photo).isValid
       THEN /\ pc' = "encoding"
            /\ UNCHANGED <<attempt, lastError, photo, progress, isAnalyzing, outcome,
                           started, succeeded, raised, delays, reported>>
       ELSE Fail(Error("Image validation failed: " \o validateImageForAI(photo).error), <<>>)
    /\ UNCHANGED <<openai, aiContent, cleanedAnalysisData, inFlight, ergoVars, parseVars, sideVars>>

\* convertImageToBase64 has answered: progress 50, the prompt, and
\* analyzeImageWithPrompt up to its first await (the proxy when no client is
\* cached, else the model call)
ConvertImageReturns ==
    /\ pc = "encoding"
    /\ \E converted \in BOOLEAN :
          IF converted
          THEN /\ progress' = 50
               /\ reported' = reported \o SubSeq(PerformAnalysisProgress, 2, 2)
               /\ pc' = IF openai THEN "calling" ELSE "client"
               /\ inFlight' = IF openai THEN inFlight + 1 ELSE inFlight
               /\ UNCHANGED <<attempt, lastError, photo, isAnalyzing, outcome, started,
                              succeeded, raised, delays>>
          ELSE /\ Fail(Error("Unable to process image file"), <<>>)
               /\ UNCHANGED inFlight
    /\ UNCHANGED <<openai, aiContent, cleanedAnalysisData, ergoVars, parseVars, sideVars>>

\* getClient: fetchApiKeyFromProxy has answered; with a key the client is
\* built and the model call goes out, an error leaves analyzeImageWithPrompt
\* as it is (getClient is awaited outside its try)
GetClientReturns ==
    /\ pc = "client"
    /\ \E answer \in {"key"} \cup ProxyErrorMessages :
          IF answer = "key"
          THEN /\ openai' = TRUE
               /\ inFlight' = inFlight + 1
               /\ pc' = "calling"
               /\ UNCHANGED <<attempt, lastError, photo, progress, isAnalyzing, outcome,
                              started, succeeded, raised, delays, reported>>
          ELSE /\ Fail(Error(answer), <<>>)
               /\ UNCHANGED <<openai, inFlight>>
    /\ UNCHANGED <<aiContent, cleanedAnalysisData, ergoVars, parseVars, sideVars>>

\* chat.completions.create has thrown, or answered without content
ModelCallFails ==
    /\ pc = "calling"
    /\ inFlight' = inFlight - 1
    /\ \E message \in ApiErrorMessages \cup {"No response from AI analysis"} :
          Fail(classifyError(message), <<>>)
    /\ UNCHANGED <<openai, aiContent, cleanedAnalysisData, ergoVars, parseVars, sideVars>>

\* chat.completions.create has answered with a text: progress 70, parsing and
\* cleaning, progress 80, the recommendations, progress 85, then the await of
\* extractColorPalette
ModelCallReturns ==
    /\ pc = "calling"
    /\ inFlight' = inFlight - 1
    /\ \E text \in ModelTexts :
       \E analysisData \in {extractStructuredData(text)} :
       \E cleaned \in {cleanAnalysisData(analysisData)} :
          /\ aiContent' = Str(text)
          /\ IF cleaned.threw
             THEN /\ Fail(cleaned.v, SubSeq(PerformAnalysisProgress, 3, 3))
                  /\ UNCHANGED cleanedAnalysisData
             ELSE /\ cleanedAnalysisData' = cleaned.v
                  /\ progress' = 85
                  /\ reported' = reported \o SubSeq(PerformAnalysisProgress, 3, 5)
                  /\ pc' = "coloring"
                  /\ UNCHANGED <<attempt, lastError, photo, isAnalyzing, outcome, started,
                                 succeeded, raised, delays>>
    /\ UNCHANGED <<openai, ergoVars, parseVars, sideVars>>

\* extractColorPalette has answered: progress 90, analyzeErgonomics under
\* standard strictness, the result object; analyzeWorkspace reports 100 and
\* returns, and the handler stores the result
ColorPaletteReturns ==
    /\ pc = "coloring"
    /\ \E re \in RandomDraws(EvalDraws(cleanedAnalysisData, "standard"),
                             ArrLen(Get(cleanedAnalysisData, "ergonomic_evaluation"))),
          rp \in RandomDraws(PrioDraws(cleanedAnalysisData),
                             ArrLen(Get(cleanedAnalysisData, "improvement_priorities"))) :
       \E ergonomicInsights \in {analyzeErgonomics(cleanedAnalysisData, "standard", re, rp)} :
       \E extracted \in BOOLEAN :
       \E colorPalette \in {extractColorPalette(cleanedAnalysisData, extracted)} :
       \E result \in {assembleResult(cleanedAnalysisData, colorPalette, ergonomicInsights)} :
          IF result.threw
          THEN Fail(result.v, SubSeq(PerformAnalysisProgress, 6, 6))
          ELSE /\ progress' = 100
               /\ reported' = reported \o SubSeq(PerformAnalysisProgress, 6, 6) \o <<100>>
               /\ outcome' = result
               /\ succeeded' = succeeded + 1
               /\ isAnalyzing' = FALSE
               /\ pc' = "returned"
               /\ UNCHANGED <<attempt, lastError, photo, started, raised, delays>>
    /\ UNCHANGED <<openai, aiContent, cleanedAnalysisData, inFlight, ergoVars, parseVars, sideVars>>

\* the timer of delay() has fired: attempt++ and the next attempt begins
DelayElapsed ==
    /\ pc = "delaying"
    /\ BeginAttempt(attempt + 1)
    /\ UNCHANGED <<lastError, photo, openai, isAnalyzing, outcome, succeeded, inFlight,
                   raised, delays, ergoVars, parseVars, sideVars>>

\* the cancel button of the progress modal: onCancel sets isAnalyzing to false
\* and error to null, and nothing else
OnCancel ==
    /\ isAnalyzing
    /\ isAnalyzing' = FALSE
    /\ UNCHANGED <<pc, attempt, lastError, photo, openai, aiContent, cleanedAnalysisData,
                   progress, outcome, started, succeeded, inFlight, raised, delays,
                   reported, ergoVars, parseVars, sideVars>>

Next ==
    \/ AnalyzeWorkspace
    \/ ValidateImageReturns
    \/ ConvertImageReturns
    \/ GetClientReturns
    \/ ModelCallFails
    \/ ModelCallReturns
    \/ ColorPaletteReturns
    \/ DelayElapsed
    \/ OnCancel

Spec == Init /\ [][Next]_vars

-----------------------------------------------------------------------------
(* AIPromptService.createPromptContext                                      *)

VibeCodes == <<"focus-minimal", "creative-inspiring", "cozy-warm">>
VibeDescriptions ==
    <<"Focus & Minimal - Clean, distraction-free environment for deep work",
      "Creative & Inspiring - Vibrant space that sparks creativity and innovation",
      "Cozy & Warm - Comfortable, welcoming atmosphere for relaxed productivity">>

ColorCodes == <<"neutral-tones", "bold-accents", "natural-greens">>
ColorDescriptions ==
    <<"Neutral Tones - Calming beiges, whites, and soft grays",
      "Bold Accents - Energizing pops of color with strong contrasts",
      "Natural Greens - Refreshing plant-inspired earth tones">>

BudgetCodes == <<"budget-low", "budget-mid", "budget-high">>
BudgetDescriptions ==
    <<"Under $500 - Budget-friendly essentials and DIY solutions",
      "$500 - $1500 - Quality pieces with good value for money",
      "$1500+ - Premium furniture and complete workspace transformation">>

\* responseMap.get(questionId): the first selected option of the last response
\* to the question, undefined when nothing answers it
ResponseMapGet(responses, questionId) ==
    LET hits == {i \in 1..Len(responses) : responses[i].questionId = questionId}
    IN  IF hits = {} THEN Undef
        ELSE IF Len(responses[Max(hits)].selectedOptionIds) = 0 THEN Undef
        ELSE Str(responses[Max(hits)].selectedOptionIds[1])

\* table[responseMap.get(questionId) || ''] || fallback
Described(keys, vals, responses, questionId, fallback) ==
    Or(Lookup(keys, vals, Or(ResponseMapGet(responses, questionId), Str("")).s),
       Str(fallback))

createPromptContext(responses) ==
    Obj(<<"userVibe", "colorPreference", "budgetRange", "imageDescription">>,
        <<Described(VibeCodes, VibeDescriptions, responses, "workspace-vibe",
                    "Modern and functional"),
          Described(ColorCodes, ColorDescriptions, responses, "color-preference",
                    "Neutral and calming"),
          Described(BudgetCodes, BudgetDescriptions, responses, "budget-range",
                    "Mid-range quality"),
          Str("")>>)

-----------------------------------------------------------------------------
(* ProductRecommendationService                                             *)

\* Math.round(n / d) for integers n >= 0, d > 0: the nearest integer, a tie
\* going up
RoundDiv(n, d) == (2 * n + d) \div (2 * d)

\* Prices are whole dollars and the price multiplier is kept in tenths (6, 10,
\* 18 for 0.6, 1, 1.8).  The base prices are multiples of 5, so basePrice *
\* multiplier is a whole number and adjustedPrice * 0.2 never lies halfway
\* between two integers: the floating-point products round as the exact ones.

\* calculatePriceMultiplier, in tenths; budgetRange.toLowerCase throws on a
\* value that is no string
calculatePriceMultiplier(budgetRange) ==
    IF ~Truthy(budgetRange) THEN Returned(10)
    ELSE IF ~IsStr(budgetRange) THEN Thrown(TypeError)
    ELSE IF Includes(ToLowerCase(budgetRange.s), "under")
            \/ Includes(ToLowerCase(budgetRange.s), "500")
    THEN Returned(6)
    ELSE IF Includes(ToLowerCase(budgetRange.s), "1500")
            \/ Includes(ToLowerCase(budgetRange.s), "high")
            \/ Includes(ToLowerCase(budgetRange.s), "premium")
    THEN Returned(18)
    ELSE Returned(10)

Product(category, name, basePrice) ==
    [category |-> category, name |-> name, basePrice |-> basePrice]

getBaseProducts ==
    <<Product("chair", "Ergonomic Office Chair", 150),
      Product("desk", "Standing Desk Converter", 200),
      Product("lighting", "LED Desk Lamp", 60),
      Product("storage", "Desktop Organizer", 35),
      Product("tech", "Monitor Stand", 45),
      Product("decor", "Desktop Plant", 25)>>

\* the style products of the code, each with the two words that select it
StyleTable ==
    <<[words |-> {"modern", "minimalist"}, product |-> Product("decor", "Minimalist Wall Art", 40)],
      [words |-> {"cozy", "warm"}, product |-> Product("lighting", "Warm Ambient Light", 55)],
      [words |-> {"productive", "professional"}, product |-> Product("storage", "Filing Cabinet", 120)],
      [words |-> {"creative", "artistic"}, product |-> Product("decor", "Inspiration Board", 30)],
      [words |-> {"tech", "gaming"}, product |-> Product("tech", "RGB LED Strip", 35)]>>

RECURSIVE StyleProductsFrom(_, _)
\* the products of StyleTable[i..] whose words the lower-cased vibe includes
StyleProductsFrom(vibe, i) ==
    IF i > Len(StyleTable) THEN <<>>
    ELSE (IF \E w \in StyleTable[i].words : Includes(vibe, w)
          THEN <<StyleTable[i].product>> ELSE <<>>)
         \o StyleProductsFrom(vibe, i + 1)

\* getStyleSpecificProducts; userVibe.toLowerCase throws on a truthy value that
\* is no string
getStyleSpecificProducts(userVibe) ==
    IF ~Truthy(userVibe) THEN Returned(<<>>)
    ELSE IF ~IsStr(userVibe) THEN Thrown(TypeError)
    ELSE Returned(StyleProductsFrom(ToLowerCase(userVibe.s), 1))

\* 20% of the adjusted price, cut instead of rounded
priceVariationTruncated(adjusted) == (adjusted * 2) \div 10

adjustedPrice(basePrice, priceMultiplier) == RoundDiv(basePrice * priceMultiplier, 10)
priceVariation(adjusted) == RoundDiv(adjusted * 2, 10)

Recommendation(id, name, category, min, max) ==
    [id |-> id, name |-> name, category |-> category, price |-> [min |-> min, max |-> max]]

\* the object pushed for the product at 0-based position index
priced(product, index, priceMultiplier) ==
    Recommendation("rec_" \o IndexKey(index + 1), product.name, product.category,
        adjustedPrice(product.basePrice, priceMultiplier)
            - priceVariation(adjustedPrice(product.basePrice, priceMultiplier)),
        adjustedPrice(product.basePrice, priceMultiplier)
            + priceVariation(adjustedPrice(product.basePrice, priceMultiplier)))

getFallbackRecommendations ==
    <<Recommendation("rec_fallback_1", "Ergonomic Office Chair", "chair", 120, 180),
      Recommendation("rec_fallback_2", "LED Desk Lamp", "lighting", 45, 75),
      Recommendation("rec_fallback_3", "Desktop Organizer", "storage", 25, 45)>>

\* allProducts.slice(0, 8)
selectProducts(allProducts) == SubSeq(allProducts, 1, Min({8, Len(allProducts)}))

\* the try block of generateRecommendations: the priced products (description,
\* imageUrl, tags and the random rating left out), or what it throws; analysisData
\* is never read
pricedProducts(context) ==
    IF Nullish(context) THEN Thrown(TypeError)
    ELSE IF calculatePriceMultiplier(Get(context, "budgetRange")).threw
    THEN calculatePriceMultiplier(Get(context, "budgetRange"))
    ELSE IF getStyleSpecificProducts(Get(context, "userVibe")).threw
    THEN getStyleSpecificProducts(Get(context, "userVibe"))
    ELSE Returned(
        [i \in 1..Len(selectProducts(getBaseProducts
                        \o getStyleSpecificProducts(Get(context, "userVibe")).v)) |->
            priced((getBaseProducts \o getStyleSpecificProducts(Get(context, "userVibe")).v)[i],
                   i - 1,
                   calculatePriceMultiplier(Get(context, "budgetRange")).v)])

\* generateRecommendations without its catch
generateRecommendationsUncaught(context) == pricedProducts(context)

\* generateRecommendations: the try block, and the fallback list of its catch
generateRecommendations(context) ==
    IF pricedProducts(context).threw THEN Returned(getFallbackRecommendations)
    ELSE pricedProducts(context)

-----------------------------------------------------------------------------
(* Quiz answers and prompt contexts handed to the two services               *)

QuizResponse(questionId, selectedOptionIds) ==
    [questionId |-> questionId, selectedOptionIds |-> selectedOptionIds]

\* what a question can carry: no response, a response with an empty selection,
\* a code of the tables, a code of no table, and a name every object inherits
AnswersTo(questionId, codes) ==
    {<<>>, <<QuizResponse(questionId, <<>>)>>,
     <<QuizResponse(questionId, <<"something-else">>)>>,
     <<QuizResponse(questionId, <<"constructor">>)>>}
    \cup {<<QuizResponse(questionId, <<codes[i]>>)>> : i \in 1..Len(codes)}

QuizInputs ==
    {v \o c \o b : v \in AnswersTo("workspace-vibe", VibeCodes),
                   c \in {<<>>, <<QuizResponse("color-preference", <<"bold-accents">>)>>,
                          <<QuizResponse("color-preference", <<"teal">>)>>},
                   b \in AnswersTo("budget-range", BudgetCodes)}
    \cup {<<QuizResponse("budget-range", <<"budget-low">>),
            QuizResponse("budget-range", <<"budget-high", "budget-low">>)>>}

\* contexts handed to generateRecommendations by callers other than
\* createPromptContext
DirectContexts ==
    {Undef,
     Obj(<<"budgetRange">>, <<Str("Under $500")>>),
     Obj(<<"userVibe", "budgetRange">>, <<Str("Modern"), Num("500")>>),
     Obj(<<"userVibe", "budgetRange">>,
         <<Str("Modern cozy professional, artistic gaming"), Str("Premium")>>),
     Obj(<<"userVibe", "budgetRange">>, <<Str("Tech"), Str("mid")>>)}

-----------------------------------------------------------------------------
(* The recommendation services as a state machine                            *)

RecInit ==
    /\ \/ /\ quizResponses \in QuizInputs
          /\ promptContext = Undef
          /\ recPc = "quiz"
       \/ /\ quizResponses = <<>>
          /\ promptContext \in DirectContexts
          /\ recPc = "direct"
    /\ recommendations = Returned(Undef)
    /\ ErgoIdle
    /\ ParseIdle
    /\ OrchIdle
    /\ ColorIdle
    /\ TextIdle
    /\ ExtraIdle

\* AIPromptService.createPromptContext(quizResponses)
CreatePromptContext ==
    /\ recPc = "quiz"
    /\ promptContext' = createPromptContext(quizResponses)
    /\ recPc' = "context"
    /\ UNCHANGED <<quizResponses, recommendations, colorVars, textVars, extraVars, ergoVars,
                   parseVars, orchVars>>

\* ProductRecommendationService.generateRecommendations(analysisData, promptContext)
GenerateRecommendations ==
    /\ recPc \in {"context", "direct"}
    /\ recommendations' = generateRecommendations(promptContext)
    /\ recPc' = "done"
    /\ UNCHANGED <<quizResponses, promptContext, colorVars, textVars, extraVars, ergoVars,
                   parseVars, orchVars>>

RecNext == CreatePromptContext \/ GenerateRecommendations

SpecRec == RecInit /\ [][RecNext]_vars

-----------------------------------------------------------------------------
(* ColorExtractionService                                                   *)

\* A pixel is <<r, g, b>> with channels in 0..255.

\* c => c <= 0.03928 ? c / 12.92 : Math.pow((c + 0.055) / 1.055, 2.4) for c =
\* channel / 255: the values of the code's formula in units of 1/10000, by
\* channel value 0..255
LinearChannel ==
    <<
      0, 3, 6, 9, 12, 15, 18, 21, 24, 27, 30, 33, 37, 40, 44, 48,
      52, 56, 60, 65, 70, 75, 80, 86, 91, 97, 103, 110, 116, 123, 130, 137,
      144, 152, 160, 168, 176, 185, 194, 203, 212, 222, 232, 242, 252, 262, 273, 284,
      296, 307, 319, 331, 343, 356, 369, 382, 395, 409, 423, 437, 452, 467, 482, 497,
      513, 529, 545, 561, 578, 595, 612, 630, 648, 666, 685, 704, 723, 742, 762, 782,
      802, 823, 844, 865, 887, 908, 931, 953, 976, 999, 1022, 1046, 1070, 1095, 1119, 1144,
      1170, 1195, 1221, 1248, 1274, 1301, 1329, 1356, 1384, 1413, 1441, 1470, 1500, 1529, 1559, 1590,
      1620, 1651, 1683, 1714, 1746, 1779, 1812, 1845, 1878, 1912, 1946, 1981, 2016, 2051, 2086, 2122,
      2159, 2195, 2232, 2270, 2307, 2346, 2384, 2423, 2462, 2502, 2542, 2582, 2623, 2664, 2705, 2747,
      2789, 2831, 2874, 2918, 2961, 3005, 3050, 3095, 3140, 3185, 3231, 3278, 3325, 3372, 3419, 3467,
      3515, 3564, 3613, 3663, 3712, 3763, 3813, 3864, 3916, 3968, 4020, 4072, 4125, 4179, 4233, 4287,
      4342, 4397, 4452, 4508, 4564, 4621, 4678, 4735, 4793, 4851, 4910, 4969, 5029, 5089, 5149, 5210,
      5271, 5333, 5395, 5457, 5520, 5583, 5647, 5711, 5776, 5841, 5906, 5972, 6038, 6105, 6172, 6240,
      6308, 6376, 6445, 6514, 6584, 6654, 6724, 6795, 6867, 6939, 7011, 7084, 7157, 7231, 7305, 7379,
      7454, 7529, 7605, 7682, 7758, 7835, 7913, 7991, 8070, 8148, 8228, 8308, 8388, 8469, 8550, 8632,
      8714, 8796, 8879, 8963, 9047, 9131, 9216, 9301, 9387, 9473, 9560, 9647, 9734, 9823, 9911, 10000
    >>

\* calculateLuminance, in units of 10^-8
calculateLuminance(r, g, b) ==
    2126 * LinearChannel[r + 1] + 7152 * LinearChannel[g + 1] + 722 * LinearChannel[b + 1]

\* luminance > 0.9 and luminance < 0.1 in those units
TooWhite(pixel) == calculateLuminance(pixel[1], pixel[2], pixel[3]) > 90000000
TooBlack(pixel) == calculateLuminance(pixel[1], pixel[2], pixel[3]) < 10000000

\* DEFAULT_OPTIONS
DEFAULT_OPTIONS == [maxColors |-> 6, ignoreWhite |-> TRUE, ignoreBlack |-> TRUE]

\* the pixels extractDominantColors keeps
filterPixels(ps, options) ==
    SelectSeq(ps, LAMBDA pixel : /\ ~(options.ignoreWhite /\ TooWhite(pixel))
                                 /\ ~(options.ignoreBlack /\ TooBlack(pixel)))

\* calculateColorDistance(color1, color2) < 30, on the squares
Similar(color1, color2) ==
    (color2[1] - color1[1]) * (color2[1] - color1[1])
      + (color2[2] - color1[2]) * (color2[2] - color1[2])
      + (color2[3] - color1[3]) * (color2[3] - color1[3]) < 30 * 30

RECURSIVE SumChannel(_, _, _)
\* the sum of channel c over the pixels ps[1..n]
SumChannel(ps, c, n) == IF n = 0 THEN 0 ELSE SumChannel(ps, c, n - 1) + ps[n][c]

calculateAverageColor(ps) ==
    <<RoundDiv(SumChannel(ps, 1, Len(ps)), Len(ps)),
      RoundDiv(SumChannel(ps, 2, Len(ps)), Len(ps)),
      RoundDiv(SumChannel(ps, 3, Len(ps)), Len(ps))>>

\* one turn of the loop of groupSimilarColors: the pixel joins the first group
\* whose centroid is near, which then moves its centroid, else founds a group
addToGroups(groups, pixel) ==
    IF \E k \in 1..Len(groups) : Similar(pixel, groups[k].centroid)
    THEN [k \in 1..Len(groups) |->
            IF k = Min({j \in 1..Len(groups) : Similar(pixel, groups[j].centroid)})
            THEN [pixels |-> Append(groups[k].pixels, pixel),
                  centroid |-> calculateAverageColor(Append(groups[k].pixels, pixel))]
            ELSE groups[k]]
    ELSE Append(groups, [pixels |-> <<pixel>>, centroid |-> pixel])

RECURSIVE groupSimilarColors(_, _)
\* the groups after the pixels ps[1..n]
groupSimilarColors(ps, n) ==
    IF n = 0 THEN <<>> ELSE addToGroups(groupSimilarColors(ps, n - 1), ps[n])

\* the groups left in the order of their founding
sortByFrequencyNot(groups, n) == groups

RECURSIVE sortByFrequency(_, _)
\* sort((a, b) => b.pixels.length - a.pixels.length), stable: the groups of size
\* n, then those of the smaller sizes, each in their order
sortByFrequency(groups, n) ==
    IF n = 0 THEN <<>>
    ELSE SelectSeq(groups, LAMBDA group : Len(group.pixels) = n)
         \o sortByFrequency(groups, n - 1)

HexDigits == "0123456789ABCDEF"

\* rgbToHex
rgbToHex(r, g, b) ==
    "#" \o CharAt(HexDigits, (r \div 16) + 1) \o CharAt(HexDigits, (r % 16) + 1)
        \o CharAt(HexDigits, (g \div 16) + 1) \o CharAt(HexDigits, (g % 16) + 1)
        \o CharAt(HexDigits, (b \div 16) + 1) \o CharAt(HexDigits, (b % 16) + 1)

\* the ExtractedColor of a group of count pixels out of total with average
\* color rgb; the frequency count / total is kept as <<count, total>>
ExtractedColor(rgb, count, total) ==
    [hex |-> rgbToHex(rgb[1], rgb[2], rgb[3]),
     rgb |-> rgb,
     frequency |-> <<count, total>>,
     luminance |-> calculateLuminance(rgb[1], rgb[2], rgb[3])]

extractDominantColors(ps, options) ==
    LET sorted == sortByFrequency(groupSimilarColors(filterPixels(ps, options),
                                                     Len(filterPixels(ps, options))),
                                  Len(ps))
    IN  [k \in 1..Min({options.maxColors, Len(sorted)}) |->
            ExtractedColor(calculateAverageColor(sorted[k].pixels), Len(sorted[k].pixels),
                           Len(filterPixels(ps, options)))]

\* A fraction is <<numerator, denominator>>.
AddFraction(x, y) == <<x[1] * y[2] + y[1] * x[2], x[2] * y[2]>>

\* max === 0 ? 0 : (max - min) / max
saturation(rgb) ==
    IF Max({rgb[1], rgb[2], rgb[3]}) = 0 THEN <<0, 1>>
    ELSE <<Max({rgb[1], rgb[2], rgb[3]}) - Min({rgb[1], rgb[2], rgb[3]}),
           Max({rgb[1], rgb[2], rgb[3]})>>

RECURSIVE totalSaturation(_, _), totalLuminance(_, _)
\* determineMood's totals over colors[1..n]
totalSaturation(colors, n) ==
    IF n = 0 THEN <<0, 1>>
    ELSE AddFraction(totalSaturation(colors, n - 1), saturation(colors[n].rgb))
totalLuminance(colors, n) ==
    IF n = 0 THEN 0 ELSE totalLuminance(colors, n - 1) + colors[n].luminance

\* avgSaturation > tenths / 10 and avgSaturation < tenths / 10
SaturationAbove(colors, tenths) ==
    10 * totalSaturation(colors, Len(colors))[1]
        > tenths * Len(colors) * totalSaturation(colors, Len(colors))[2]
SaturationBelow(colors, tenths) ==
    10 * totalSaturation(colors, Len(colors))[1]
        < tenths * Len(colors) * totalSaturation(colors, Len(colors))[2]

\* avgLuminance > tenths / 10 and avgLuminance < tenths / 10
LuminanceAbove(colors, tenths) ==
    totalLuminance(colors, Len(colors)) > tenths * Len(colors) * 10000000
LuminanceBelow(colors, tenths) ==
    totalLuminance(colors, Len(colors)) < tenths * Len(colors) * 10000000

\* warmColors > coolColors
isWarm(colors) ==
    Cardinality({k \in 1..Len(colors) : colors[k].rgb[1] > colors[k].rgb[3]})
        > Cardinality({k \in 1..Len(colors) : ~(colors[k].rgb[1] > colors[k].rgb[3])})

\* determineMood with the focus test ahead of the creativity test
determineMoodFocusFirst(colors) ==
    IF Len(colors) = 0 THEN "focus"
    ELSE IF SaturationAbove(colors, 6) /\ LuminanceAbove(colors, 5) THEN "energizing"
    ELSE IF LuminanceBelow(colors, 3) \/ SaturationBelow(colors, 2) THEN "focus"
    ELSE IF SaturationAbove(colors, 4) /\ isWarm(colors) THEN "creativity"
    ELSE "calm"

determineMood(colors) ==
    IF Len(colors) = 0 THEN "focus"
    ELSE IF SaturationAbove(colors, 6) /\ LuminanceAbove(colors, 5) THEN "energizing"
    ELSE IF SaturationAbove(colors, 4) /\ isWarm(colors) THEN "creativity"
    ELSE IF LuminanceBelow(colors, 3) \/ SaturationBelow(colors, 2) THEN "focus"
    ELSE "calm"

\* a ColorPalette (id and description left out)
ColorPalette(name, colors, mood) == [name |-> name, colors |-> colors, mood |-> mood]

createFallbackPalette ==
    ColorPalette("Neutral Workspace", <<"#F5F5F0", "#E8E4DD", "#D4CFC4", "#A8A39A">>, "focus")

\* steps 4 to 6 of extractColorPalette and its return
paletteOf(colors) ==
    ColorPalette("Workspace Colors", [k \in 1..Len(colors) |-> colors[k].hex],
                 determineMood(colors))

-----------------------------------------------------------------------------
(* Pixels and color lists                                                    *)

MaxPixels == 3   \* pixels per image (the code draws 1000)

\* pixels simulatePixelExtraction can draw: a sample color with a variation of
\* -10, -5, 0, 5 or 10 on each channel
PixelSamples ==
    {<<250, 250, 245>>, <<90, 85, 75>>, <<180, 160, 140>>, <<185, 165, 145>>,
     <<120, 140, 160>>, <<150, 145, 135>>, <<160, 150, 135>>}

\* the configurations of a call: no options, or a smaller maxColors
ColorConfigs == {DEFAULT_OPTIONS, [DEFAULT_OPTIONS EXCEPT !.maxColors = 2]}

PixelData == UNION {[1..n -> PixelSamples] : n \in 1..MaxPixels}

\* color lists handed to determineMood by callers other than
\* extractDominantColors
MoodColors ==
    {ExtractedColor(rgb, 1, 1) : rgb \in {<<250, 220, 50>>, <<150, 30, 30>>, <<30, 30, 150>>,
                                    <<120, 170, 240>>, <<150, 145, 135>>, <<0, 0, 0>>}}

MoodInputs == {<<>>} \cup UNION {[1..n -> MoodColors] : n \in 1..2}

-----------------------------------------------------------------------------
(* The color extraction as a state machine                                   *)

ColorInit ==
    /\ \/ /\ dominantColors = <<>>
          /\ colorPc = "start"
       \/ /\ dominantColors \in MoodInputs
          /\ colorPc = "direct"
    /\ colorConfig \in ColorConfigs
    /\ pixels = <<>>
    /\ palette = Undef
    /\ ErgoIdle
    /\ ParseIdle
    /\ OrchIdle
    /\ RecIdle
    /\ TextIdle
    /\ ExtraIdle

\* resizeImageForAnalysis rejects: the catch returns the fallback palette
ResizeFails ==
    /\ colorPc = "start"
    /\ palette' = createFallbackPalette
    /\ colorPc' = "done"
    /\ UNCHANGED <<colorConfig, pixels, dominantColors, recVars, textVars, extraVars, ergoVars,
                   parseVars, orchVars>>

\* resizeImageForAnalysis and extractPixelData return
ExtractPixelData ==
    /\ colorPc = "start"
    /\ pixels' \in PixelData
    /\ colorPc' = "pixels"
    /\ UNCHANGED <<colorConfig, dominantColors, palette, recVars, textVars, extraVars, ergoVars,
                   parseVars, orchVars>>

\* step 3 of extractColorPalette
ExtractDominantColors ==
    /\ colorPc = "pixels"
    /\ dominantColors' = extractDominantColors(pixels, colorConfig)
    /\ colorPc' = "clustered"
    /\ UNCHANGED <<colorConfig, pixels, palette, recVars, textVars, extraVars, ergoVars, parseVars, orchVars>>

\* steps 4 to 6 of extractColorPalette and its return
ReturnPalette ==
    /\ colorPc \in {"clustered", "direct"}
    /\ palette' = paletteOf(dominantColors)
    /\ colorPc' = "done"
    /\ UNCHANGED <<colorConfig, pixels, dominantColors, recVars, textVars, extraVars, ergoVars,
                   parseVars, orchVars>>

ColorNext == ResizeFails \/ ExtractPixelData \/ ExtractDominantColors \/ ReturnPalette

SpecColor == ColorInit /\ [][ColorNext]_vars

-----------------------------------------------------------------------------
(* cleanText as a state machine: the function applied to a text, then to    *)
(* its own result                                                           *)

\* texts of the kind the parser hands to cleanText: a piece of model output
\* with or without a field prefix and trailing JSON punctuation
TextPrefixes == {"", "Note: ", "\"observation\": ", FenceJson \o "\n", "{ "}
TextBodies ==
    {"the chair is too low", "chair: too low for the desk", "\"good posture\"",
     "ok", "glare on the monitor, move the lamp"}
TextSuffixes == {"", ",", "\"", " }"}

TextInputs == {p \o b \o s : p \in TextPrefixes, b \in TextBodies, s \in TextSuffixes}

TextInit ==
    /\ textIn \in TextInputs
    /\ textOnce = Undef
    /\ textTwice = Undef
    /\ textPc = "input"
    /\ ErgoIdle
    /\ ParseIdle
    /\ OrchIdle
    /\ RecIdle
    /\ ColorIdle
    /\ ExtraIdle

\* cleanText(textIn)
CleanOnce ==
    /\ textPc = "input"
    /\ textOnce' = cleanText(Str(textIn))
    /\ textPc' = "once"
    /\ UNCHANGED <<textIn, textTwice, recVars, colorVars, extraVars, ergoVars, parseVars, orchVars>>

\* cleanText applied to what the first call returned
CleanTwice ==
    /\ textPc = "once"
    /\ textTwice' = cleanText(textOnce)
    /\ textPc' = "twice"
    /\ UNCHANGED <<textIn, textOnce, recVars, colorVars, extraVars, ergoVars, parseVars, orchVars>>

TextNext == CleanOnce \/ CleanTwice

SpecText == TextInit /\ [][TextNext]_vars

-----------------------------------------------------------------------------
(* OpenAIClientService: the cached client and the cached API key            *)

MaxKeys == 3      \* keys the proxy issues in a run
MaxClock == 7     \* minutes the clock runs

Minute == 60 * 1000

\* API_CONFIG.CACHE_DURATION
CACHE_DURATION == 5 * 60 * 1000

\* cachedApiKey holds a key that fetchApiKeyFromProxy hands out again
CacheIsValid ==
    /\ cachedApiKey # Null
    /\ ~(now - cachedApiKey.timestamp > CACHE_DURATION)     \* !isExpired

\* client.chat.completions.create goes out with this key
CallWith(key) ==
    /\ lastCall' = [key |-> key, at |-> now, floor |-> staleUpTo]
    /\ clientPc' = "calling"

ClientInit ==
    /\ ClientIdle
    /\ MainIdle
    /\ UsageIdle
    /\ DesignIdle
    /\ BackupIdle

\* analyzeImageWithPrompt up to its first await that waits: getClient hands
\* back the cached client, or builds one from the cached key, or
\* fetchApiKeyFromProxy asks the proxy
AnalyzeImageWithPrompt ==
    /\ clientPc = "idle"
    /\ IF openaiClient # Null
       THEN /\ CallWith(openaiClient)
            /\ UNCHANGED <<openaiClient, cachedApiKey>>
       ELSE IF CacheIsValid
       THEN /\ openaiClient' = cachedApiKey.key
            /\ CallWith(cachedApiKey.key)
            /\ UNCHANGED cachedApiKey
       ELSE /\ issued < MaxKeys
            /\ clientPc' = "fetching"
            /\ UNCHANGED <<openaiClient, cachedApiKey, lastCall>>
    /\ UNCHANGED <<now, issued, staleUpTo, clientRest>>

\* the proxy has answered with a key: fetchApiKeyFromProxy caches it, getClient
\* builds the client, and the model call goes out
ProxyAnswers ==
    /\ clientPc = "fetching"
    /\ \E key \in {[serial |-> issued + 1, fetchedAt |-> now]} :
          /\ issued' = issued + 1
          /\ cachedApiKey' = [key |-> key, timestamp |-> now]
          /\ openaiClient' = key
          /\ CallWith(key)
    /\ UNCHANGED <<now, staleUpTo, clientRest>>

\* the proxy has failed: fetchApiKeyFromProxy throws 'Proxy connection failed'
\* and analyzeImageWithPrompt rejects
ProxyFails ==
    /\ clientPc = "fetching"
    /\ clientPc' = "idle"
    /\ UNCHANGED <<openaiClient, cachedApiKey, now, issued, staleUpTo, lastCall, clientRest>>

\* chat.completions.create has answered or thrown: analyzeImageWithPrompt settles
ModelAnswers ==
    /\ clientPc = "calling"
    /\ clientPc' = "idle"
    /\ UNCHANGED <<openaiClient, cachedApiKey, now, issued, staleUpTo, lastCall, clientRest>>

\* OpenAIClientService.clearCache()
ClearCache ==
    /\ cachedApiKey' = Null
    /\ staleUpTo' = issued
    /\ UNCHANGED <<openaiClient, now, issued, lastCall, clientPc, clientRest>>

\* OpenAIClientService.resetClient()
ResetClient ==
    /\ openaiClient # Null \/ cachedApiKey # Null
    /\ openaiClient' = Null
    /\ cachedApiKey' = Null
    /\ UNCHANGED <<now, issued, staleUpTo, lastCall, clientPc, clientRest>>

\* a minute passes
Tick ==
    /\ now < MaxClock * Minute
    /\ now' = now + Minute
    /\ UNCHANGED <<openaiClient, cachedApiKey, issued, staleUpTo, lastCall, clientPc, clientRest>>

ClientNext ==
    \/ AnalyzeImageWithPrompt
    \/ ProxyAnswers
    \/ ProxyFails
    \/ ModelAnswers
    \/ ClearCache
    \/ ResetClient
    \/ Tick

SpecClient == ClientInit /\ [][ClientNext]_vars

-----------------------------------------------------------------------------
(* UsageTrackingService, HomeScreen.startAIAnalysis and the re-run flow of   *)
(* FavoritesScreen, all on one day and with the stored version current       *)

\* USAGE_LIMITS.DAILY_ANALYSES
DAILY_ANALYSES == 5

\* the stored tracking with this many analyses counted today
Tracking(count) ==
    [currentDaily |-> [analysisCount |-> count], totalAnalyses |-> count]

\* createUsageTracking's initial data
InitialTracking == Tracking(0)

\* updatedUsage of recordAnalysisUsage
UpdatedUsage(usage) ==
    [usage EXCEPT !.currentDaily.analysisCount = usage.currentDaily.analysisCount + 1,
                  !.totalAnalyses = usage.totalAnalyses + 1]

\* the handler moves on, the others stay
Goto(p, where) == callPc' = [callPc EXCEPT ![p] = where]

UsageInit ==
    /\ \/ usageTracking = Null /\ earlier = 0
       \/ \E count \in 0..DAILY_ANALYSES :
             usageTracking = Tracking(count) /\ earlier = count
    /\ callPc = [p \in Handlers |-> "idle"]
    /\ callFlow = [p \in Handlers |-> "none"]
    /\ callUsage = [p \in Handlers |-> Null]
    /\ recordedFor = {}
    /\ analysesStarted = {}
    /\ MainIdle
    /\ ClientIdle
    /\ DesignIdle
    /\ BackupIdle

\* recordAnalysisUsage or canPerformAnalysis goes on with the tracking
\* getUsageTracking handed back
WithUsage(p, usage) ==
    IF callFlow[p] = "home"
    THEN IF usage.currentDaily.analysisCount >= DAILY_ANALYSES
         THEN Goto(p, "refused") /\ UNCHANGED callUsage
         ELSE /\ callUsage' = [callUsage EXCEPT ![p] = UpdatedUsage(usage)]
              /\ Goto(p, "setItem")
    ELSE /\ IF usage.currentDaily.analysisCount < DAILY_ANALYSES
            THEN Goto(p, "modal")
            ELSE Goto(p, "refused")
         /\ UNCHANGED callUsage

\* getUsageTracking answered { success: false }: recordAnalysisUsage returns
\* an error, canPerformAnalysis allows the analysis
WithoutUsage(p) ==
    /\ IF callFlow[p] = "home" THEN Goto(p, "refused") ELSE Goto(p, "modal")
    /\ UNCHANGED callUsage

\* HomeScreen.startAIAnalysis: the configuration is valid and
\* recordAnalysisUsage awaits AsyncStorage.getItem in getUsageTracking
StartAIAnalysis(p) ==
    /\ callPc[p] = "idle"
    /\ callFlow' = [callFlow EXCEPT ![p] = "home"]
    /\ Goto(p, "getItem")
    /\ UNCHANGED <<usageTracking, earlier, callUsage, recordedFor, analysesStarted, usageRest>>

\* FavoritesScreen.handleRerunAnalysis: canPerformAnalysis awaits
\* AsyncStorage.getItem in getUsageTracking
HandleRerunAnalysis(p) ==
    /\ callPc[p] = "idle"
    /\ callFlow' = [callFlow EXCEPT ![p] = "favorites"]
    /\ Goto(p, "getItem")
    /\ UNCHANGED <<usageTracking, earlier, callUsage, recordedFor, analysesStarted, usageRest>>

\* AsyncStorage.getItem has answered or thrown: with no data
\* createUsageTracking awaits setItem, else the caller goes on
GetItemReturns(p) ==
    /\ callPc[p] = "getItem"
    /\ \E ok \in BOOLEAN :
          IF ~ok THEN WithoutUsage(p)
          ELSE IF usageTracking = Null
          THEN Goto(p, "create") /\ UNCHANGED callUsage
          ELSE WithUsage(p, usageTracking)
    /\ UNCHANGED <<usageTracking, earlier, callFlow, recordedFor, analysesStarted, usageRest>>

\* the setItem of createUsageTracking has answered or thrown
CreateReturns(p) ==
    /\ callPc[p] = "create"
    /\ \E ok \in BOOLEAN :
          IF ok
          THEN /\ usageTracking' = InitialTracking
               /\ WithUsage(p, InitialTracking)
          ELSE /\ WithoutUsage(p)
               /\ UNCHANGED usageTracking
    /\ UNCHANGED <<earlier, callFlow, recordedFor, analysesStarted, usageRest>>

\* the setItem of recordAnalysisUsage has answered: success, and startAIAnalysis
\* calls analyzeWorkspace; or it has thrown: an error, and startAIAnalysis returns
SetItemReturns(p) ==
    /\ callPc[p] = "setItem"
    /\ \E ok \in BOOLEAN :
          IF ok
          THEN /\ usageTracking' = callUsage[p]
               /\ recordedFor' = recordedFor \cup {p}
               /\ analysesStarted' = analysesStarted \cup {p}
               /\ Goto(p, "analyzing")
          ELSE /\ Goto(p, "refused")
               /\ UNCHANGED <<usageTracking, recordedFor, analysesStarted>>
    /\ UNCHANGED <<earlier, callFlow, callUsage, usageRest>>

\* FavoritesScreen.handleRerunAnalysisComplete: the photo is taken and
\* analyzeWorkspace is called
HandleRerunAnalysisComplete(p) ==
    /\ callPc[p] = "modal"
    /\ analysesStarted' = analysesStarted \cup {p}
    /\ Goto(p, "analyzing")
    /\ UNCHANGED <<usageTracking, earlier, callFlow, callUsage, recordedFor, usageRest>>

UsageNext ==
    \E p \in Handlers :
        \/ StartAIAnalysis(p)
        \/ HandleRerunAnalysis(p)
        \/ GetItemReturns(p)
        \/ CreateReturns(p)
        \/ SetItemReturns(p)
        \/ HandleRerunAnalysisComplete(p)

SpecUsage == UsageInit /\ [][UsageNext]_vars

-----------------------------------------------------------------------------
(* DesignStorageService: saveDesign, updateDesign, deleteDesign and          *)
(* toggleFavorite, each reading the stored list, awaiting, then writing      *)

MaxSavedDesigns == 2    \* USAGE_LIMITS.MAX_SAVED_DESIGNS (50 in the code)
MaxDesignIds == 3       \* designs created in a run

\* a SavedDesign; createDesignId and Date.now() give every design its own id
\* and creation time
SavedDesign(id) == [id |-> id, createdAt |-> id, isFavorite |-> FALSE]

\* the updates argument of updateDesign
DesignUpdates == {[isFavorite |-> TRUE], [isFavorite |-> FALSE]}

\* { ...design, ...updates }
Updated(design, updates) ==
    [f \in DOMAIN design |-> IF f \in DOMAIN updates THEN updates[f] ELSE design[f]]

\* designs.sort((a, b) => b.createdAt - a.createdAt), a stable sort
RECURSIVE SortByCreatedAt(_)
SortByCreatedAt(designs) ==
    IF designs = <<>> THEN <<>>
    ELSE LET sorted == SortByCreatedAt(SubSeq(designs, 1, Len(designs) - 1))
             x == designs[Len(designs)]
             before == SelectSeq(sorted, LAMBDA d : d.createdAt >= x.createdAt)
             after == SelectSeq(sorted, LAMBDA d : d.createdAt < x.createdAt)
         IN  before \o <<x>> \o after

\* the data of getAllSavedDesigns when getItem answers
AllSavedDesigns == SortByCreatedAt(savedDesigns)

\* designs.findIndex(d => d.id === id), 1-based, 0 when there is none
FindIndex(designs, id) ==
    IF \E i \in 1..Len(designs) : designs[i].id = id
    THEN Min({i \in 1..Len(designs) : designs[i].id = id})
    ELSE 0

DesignInit ==
    /\ DesignIdle
    /\ MainIdle
    /\ ClientIdle
    /\ UsageIdle
    /\ BackupIdle

\* a call of kind on id begins: it awaits AsyncStorage.getItem in getAllSavedDesigns
Begin(p, kind, id, updates) ==
    /\ opPc[p] \in {"idle", "done"}
    /\ opKind' = [opKind EXCEPT ![p] = kind]
    /\ opId' = [opId EXCEPT ![p] = id]
    /\ opUpdates' = [opUpdates EXCEPT ![p] = updates]
    /\ opResult' = [opResult EXCEPT ![p] = "none"]
    /\ opPc' = [opPc EXCEPT ![p] = "getItem"]
    /\ UNCHANGED <<savedDesigns, opDesigns, savedOk, deletedOk, nextId, designRest>>

\* DesignStorageService.saveDesign(...)
SaveDesign(p) == nextId < MaxDesignIds /\ Begin(p, "saveDesign", 0, Null)

\* DesignStorageService.updateDesign(id, updates)
UpdateDesign(p) ==
    \E id \in 1..MaxDesignIds, updates \in DesignUpdates : Begin(p, "updateDesign", id, updates)

\* DesignStorageService.toggleFavorite(id): getDesignById first
ToggleFavorite(p) == \E id \in 1..MaxDesignIds : Begin(p, "toggleFavorite", id, Null)

\* DesignStorageService.deleteDesign(id)
DeleteDesign(p) == \E id \in 1..MaxDesignIds : Begin(p, "deleteDesign", id, Null)

\* the call has returned: its arguments and locals are gone
Returns(p, result) ==
    /\ opResult' = [opResult EXCEPT ![p] = result]
    /\ opPc' = [opPc EXCEPT ![p] = "done"]
    /\ opKind' = [opKind EXCEPT ![p] = "none"]
    /\ opId' = [opId EXCEPT ![p] = 0]
    /\ opUpdates' = [opUpdates EXCEPT ![p] = Null]
    /\ opDesigns' = [opDesigns EXCEPT ![p] = <<>>]

\* the call returns { success: false }
ReturnError(p) == Returns(p, "error") /\ UNCHANGED nextId

\* the call awaits AsyncStorage.setItem(SAVED_DESIGNS, JSON.stringify(designs))
SetItem(p, designs) ==
    /\ opDesigns' = [opDesigns EXCEPT ![p] = designs]
    /\ opPc' = [opPc EXCEPT ![p] = "setItem"]
    /\ UNCHANGED <<opKind, opUpdates, opResult>>

\* getItem has answered or thrown and the call runs up to its next await
DesignsRead(p) ==
    /\ opPc[p] = "getItem"
    /\ \E ok \in BOOLEAN :
       \E designs \in {AllSavedDesigns} :
          IF ~ok THEN ReturnError(p)
          ELSE CASE opKind[p] = "saveDesign" ->
                      IF Len(designs) >= MaxSavedDesigns THEN ReturnError(p)
                      ELSE /\ nextId' = nextId + 1
                           /\ opId' = [opId EXCEPT ![p] = nextId + 1]
                           /\ SetItem(p, <<SavedDesign(nextId + 1)>> \o designs)
                 [] opKind[p] = "updateDesign" ->
                      IF FindIndex(designs, opId[p]) = 0 THEN ReturnError(p)
                      ELSE /\ SetItem(p, [designs EXCEPT ![FindIndex(designs, opId[p])] =
                                             Updated(@, opUpdates[p])])
                           /\ UNCHANGED <<opId, nextId>>
                 [] opKind[p] = "toggleFavorite" ->
                      IF FindIndex(designs, opId[p]) = 0 THEN ReturnError(p)
                      ELSE /\ opKind' = [opKind EXCEPT ![p] = "updateDesign"]
                           /\ opUpdates' = [opUpdates EXCEPT ![p] =
                                 [isFavorite |->
                                     ~designs[FindIndex(designs, opId[p])].isFavorite]]
                           /\ UNCHANGED <<opPc, opId, opDesigns, opResult, nextId>>
                 [] opKind[p] = "deleteDesign" ->
                      IF FindIndex(designs, opId[p]) = 0 THEN ReturnError(p)
                      ELSE /\ SetItem(p, SelectSeq(designs, LAMBDA d : d.id # opId[p]))
                           /\ UNCHANGED <<opId, nextId>>
    /\ UNCHANGED <<savedDesigns, savedOk, deletedOk, designRest>>

\* setItem has answered: the list is stored and the call returns success; or
\* it has thrown and the call returns an error
DesignsWritten(p) ==
    /\ opPc[p] = "setItem"
    /\ \E ok \in BOOLEAN :
          IF ok
          THEN /\ savedDesigns' = opDesigns[p]
               /\ Returns(p, "success")
               /\ savedOk' = IF opKind[p] = "saveDesign" THEN savedOk \cup {opId[p]}
                             ELSE savedOk
               /\ deletedOk' = IF opKind[p] = "deleteDesign" THEN deletedOk \cup {opId[p]}
                               ELSE deletedOk
          ELSE /\ Returns(p, "error")
               /\ UNCHANGED <<savedDesigns, savedOk, deletedOk>>
    /\ UNCHANGED <<nextId, designRest>>

DesignNext ==
    \E p \in Callers :
        \/ SaveDesign(p)
        \/ UpdateDesign(p)
        \/ ToggleFavorite(p)
        \/ DeleteDesign(p)
        \/ DesignsRead(p)
        \/ DesignsWritten(p)

SpecDesign == DesignInit /\ [][DesignNext]_vars

-----------------------------------------------------------------------------
(* BackupRecoveryService.restoreFromBackup and StorageService.clearAllData  *)

STORAGE_VERSION == 1

\* the keys restoreFromBackup writes, one per section of a StorageBackup
SectionKeys ==
    {"@home_harmony_user_preferences", "@home_harmony_saved_designs",
     "@home_harmony_usage_tracking", "@home_harmony_app_data"}

\* the file at backupPath: missing, not JSON, or a backup of some version
\* holding some of the sections
BackupFiles ==
    {[exists |-> FALSE, parses |-> FALSE, version |-> 0, sections |-> {}],
     [exists |-> TRUE, parses |-> FALSE, version |-> 0, sections |-> {}]}
    \cup {[exists |-> TRUE, parses |-> TRUE, version |-> v, sections |-> s] :
             v \in {STORAGE_VERSION, STORAGE_VERSION + 1}, s \in SUBSET SectionKeys}

\* what the app has stored before the restore
InitialStorages ==
    {[k \in StorageKeys |-> "old"],
     [k \in StorageKeys |-> IF k \in {"@home_harmony_user_preferences",
                                      "@home_harmony_quiz_data"} THEN "old" ELSE "none"]}

BackupInit ==
    /\ storage \in InitialStorages
    /\ backupFile \in BackupFiles
    /\ pendingWrites = {}
    /\ restoreResult = "none"
    /\ storedBefore = storage
    /\ restorePc = "idle"
    /\ MainIdle
    /\ ClientIdle
    /\ UsageIdle
    /\ DesignIdle

\* restoreFromBackup(backupPath) up to its first await: the file is missing,
\* JSON.parse throws or the version is too new, and it returns an error; else
\* it awaits clearAllData
RestoreFromBackup ==
    /\ restorePc = "idle"
    /\ IF ~backupFile.exists \/ ~backupFile.parses \/ backupFile.version > STORAGE_VERSION
       THEN restoreResult' = "error" /\ restorePc' = "done"
       ELSE restorePc' = "clearing" /\ UNCHANGED restoreResult
    /\ UNCHANGED <<storage, backupFile, pendingWrites, storedBefore, backupRest>>

\* clearAllData has returned: multiRemove took every key of the app away, or
\* getAllKeys or multiRemove threw, which clearAllData reports and
\* restoreFromBackup does not look at; the setItem calls of the sections go
\* out and Promise.all is awaited
ClearAllDataReturns ==
    /\ restorePc = "clearing"
    /\ \E cleared \in BOOLEAN :
          storage' = IF cleared THEN [k \in StorageKeys |-> "none"] ELSE storage
    /\ pendingWrites' = backupFile.sections
    /\ IF backupFile.sections = {}
       THEN restoreResult' = "success" /\ restorePc' = "done"
       ELSE restorePc' = "writing" /\ UNCHANGED restoreResult
    /\ UNCHANGED <<backupFile, storedBefore, backupRest>>

\* one setItem has settled: fulfilled, the key holds the backup's section;
\* rejected, Promise.all rejects and restoreFromBackup returns an error while
\* the other writes go on. When all are fulfilled it returns success.
SetItemSettles ==
    /\ restorePc = "writing"
    /\ \E k \in pendingWrites, ok \in BOOLEAN :
          /\ storage' = IF ok THEN [storage EXCEPT ![k] = "backup"] ELSE storage
          /\ pendingWrites' = pendingWrites \ {k}
          /\ restoreResult' = IF restoreResult # "none" THEN restoreResult
                              ELSE IF ~ok THEN "error"
                              ELSE IF pendingWrites = {k} THEN "success"
                              ELSE "none"
          /\ restorePc' = IF pendingWrites = {k} THEN "done" ELSE "writing"
    /\ UNCHANGED <<backupFile, storedBefore, backupRest>>

BackupNext ==
    \/ RestoreFromBackup
    \/ ClearAllDataReturns
    \/ SetItemSettles

SpecBackup == BackupInit /\ [][BackupNext]_vars

-----------------------------------------------------------------------------
(* Properties of the ergonomic engine                                       *)

CanonicalCategorySet == {Str(CanonicalCategories[i]) : i \in 1..5}
CanonicalStatusSet == {Str(CanonicalStatuses[i]) : i \in 1..3}

\* severity order poor < needs-improvement < good
SeverityRank(status) ==
    CASE status = Str("poor") -> 0
      [] status = Str("needs-improvement") -> 1
      [] status = Str("good") -> 2
      [] OTHER -> -1

\* chair-posture, desk-height, screen-position, lighting, organization
CategoryRank(category) ==
    CASE category = Str("chair-posture") -> 0
      [] category = Str("desk-height") -> 1
      [] category = Str("screen-position") -> 2
      [] category = Str("lighting") -> 3
      [] category = Str("organization") -> 4
      [] OTHER -> -1

EvalEntries == Get(ergoIn, "ergonomic_evaluation").a
PriorityEntries == Get(ergoIn, "improvement_priorities").a

\* C7: analyzeErgonomics returns exactly one insight per canonical category,
\* five insights in all, none missing and none twice.
C7_ExactlyOnePerCategory ==
    ergoPc = "done" =>
        /\ Len(ergoOut) = 5
        /\ \A c \in CanonicalCategorySet :
              Cardinality({i \in 1..Len(ergoOut) : ergoOut[i].category = c}) = 1

\* C8: every returned insight has a category and a status of the closed
\* enumerations; nothing else is passed through.
C8_ClosedEnumerations ==
    ergoPc = "done" =>
        \A i \in 1..Len(ergoOut) :
            /\ ergoOut[i].category \in CanonicalCategorySet
            /\ ergoOut[i].status \in CanonicalStatusSet

\* C9: for every raw status of the input, normalizeStatus under strict is never
\* better than under standard, which is never better than under lenient.
C9_StrictnessMonotone ==
    \A i \in 1..Len(EvalEntries) :
        LET raw == Get(EvalEntries[i], "status").s
        IN  /\ SeverityRank(normalizeStatus(raw, "strict"))
                  <= SeverityRank(normalizeStatus(raw, "standard"))
            /\ SeverityRank(normalizeStatus(raw, "standard"))
                  <= SeverityRank(normalizeStatus(raw, "lenient"))

\* C10: the returned array is sorted by severity (poor, needs-improvement,
\* good) and, among equal statuses, by the category order chair-posture,
\* desk-height, screen-position, lighting, organization. Stated for every pair
\* of insights of the closed enumerations, adjacent ones included.
C10_SortedBySeverityThenCategory ==
    ergoPc = "done" =>
        \A i, j \in 1..Len(ergoOut) :
            (/\ i < j
             /\ ergoOut[i].status \in CanonicalStatusSet
             /\ ergoOut[j].status \in CanonicalStatusSet
             /\ ergoOut[i].category \in CanonicalCategorySet
             /\ ergoOut[j].category \in CanonicalCategorySet)
            => \/ SeverityRank(ergoOut[i].status) < SeverityRank(ergoOut[j].status)
               \/ /\ SeverityRank(ergoOut[i].status) = SeverityRank(ergoOut[j].status)
                  /\ CategoryRank(ergoOut[i].category) <= CategoryRank(ergoOut[j].category)

\* C10 witness: a lighting entry evaluated before a chair entry, both poor, a
\* priority adding a needs-improvement insight, and defaults: the call has
\* returned them reordered.
C10_Witness ==
    /\ ergoPc = "done"
    /\ Len(EvalEntries) = 2
    /\ Get(EvalEntries[1], "category") = Str("Lighting")
    /\ Get(EvalEntries[2], "category") = Str("chair")
    /\ Len(ergoOut) >= 5
    /\ ergoOut[1].category = Str("chair-posture") /\ ergoOut[1].status = Str("poor")
    /\ ergoOut[2].category = Str("lighting") /\ ergoOut[2].status = Str("poor")
    /\ \E i \in 3..Len(ergoOut) : ergoOut[i].status = Str("needs-improvement")
    /\ ergoOut[Len(ergoOut)].status = Str("good")

-----------------------------------------------------------------------------
(* Properties of the parser                                                 *)

\* C6: for every raw model text, extractStructuredData followed by
\* cleanAnalysisData does not raise and yields an analysis object whose
\* workspace_description is defined.
C6_ParseTotalWithDescription ==
    /\ parsePc # "threw"
    /\ parsePc = "cleaned" =>
          /\ parseOut.v.t = "object"
          /\ Get(parseOut.v, "workspace_description") # Undef

\* C20: the parser takes the fenced JSON block when there is one and it
\* parses; otherwise the first top-level {...} span when that parses; it falls
\* back to unstructured parsing only when both fail, so a text with a
\* malformed fenced block and a parseable bare object is parsed from the object.
C20_FencedThenBareThenFallback ==
    parsePc # "input" =>
        parseData =
            IF FencedJsonMatch(parseIn).found /\ JSONParse(FencedJsonMatch(parseIn).text).ok
            THEN JSONParse(FencedJsonMatch(parseIn).text).v
            ELSE IF ObjectMatch(parseIn).found /\ JSONParse(ObjectMatch(parseIn).text).ok
            THEN JSONParse(ObjectMatch(parseIn).text).v
            ELSE parseUnstructuredResponse(parseIn)

-----------------------------------------------------------------------------
(* Properties of analyzeWorkspace                                           *)

\* the kinds of error the specification lets retry: network, timeout,
\* rate-limit and server errors
TransientCodes == {"NETWORK_ERROR", "TIMEOUT_ERROR", "RATE_LIMIT_ERROR", "API_ERROR"}

\* C1: within one analyzeWorkspace invocation the attempts run one after
\* another: at most MAX_RETRIES are started, a Vision Model call is in flight
\* only while the one running attempt awaits it (so never two), and once an
\* attempt has succeeded no attempt is started.
C1_AttemptsSequentialAndBounded ==
    /\ [](/\ started <= MAX_RETRIES
          /\ started = attempt
          /\ inFlight \in {0, 1}
          /\ (inFlight = 1) <=> (pc = "calling")
          /\ succeeded \in {0, 1}
          /\ (succeeded = 1) <=> (pc = "returned"))
    /\ [][succeeded > 0 => started' = started]_vars

\* C1 witness: the fifth attempt has been started after four failures and its
\* model call is the one in flight.
C1_Witness ==
    /\ started = MAX_RETRIES
    /\ Len(delays) = MAX_RETRIES - 1
    /\ pc = "calling"
    /\ inFlight = 1

\* C2: an attempt that failed with an invalid-photo or invalid-credential
\* error is not followed by a backoff delay nor by another attempt; only
\* network, timeout, rate-limit and server errors are.
C2_OnlyTransientErrorsRetry ==
    pc = "delaying" => lastError.code \in TransientCodes

\* C3: when every attempt has failed, analyzeWorkspace throws one error whose
\* message carries the message of what the last attempt threw, and there is
\* no result; a result is returned only by an attempt that ran to its end, and
\* is built from that attempt's cleaned analysis; before that nothing is
\* settled.
C3_TerminalErrorOrCompleteResult ==
    /\ pc = "thrown" =>
          /\ started = MAX_RETRIES
          /\ succeeded = 0
          /\ outcome = Thrown(Error("Analysis failed after 5 attempts: " \o raised.message))
    /\ pc = "returned" =>
          /\ succeeded = 1
          /\ progress = 100
          /\ aiContent # Null
          /\ ~outcome.threw
          /\ outcome.v.summary = Or(cleanText(Get(cleanedAnalysisData, "workspace_description")),
                                    Str("Workspace analysis completed"))
    /\ pc \notin {"thrown", "returned"} => outcome = Null

\* C3 witness: five attempts have failed, the last one on a timeout of the
\* model call, and analyzeWorkspace has thrown.
C3_Witness ==
    /\ pc = "thrown"
    /\ started = MAX_RETRIES
    /\ raised.message = "Request timed out. Please try again."
    /\ outcome.threw

C5_TextAlwaysYieldsResult ==
    aiContent # Null => pc \in {"coloring", "returned"}

\* C17: on a run whose first attempt succeeds, onProgress gets 10, 20, 30, 50,
\* 70, 80, 85, 90, 100 in exactly this order; in any run 100 is reported only
\* when the invocation then returns a result.
C17_ProgressOrderAndFinal ==
    /\ (pc = "returned" /\ started = 1) =>
          reported = <<10, 20, 30, 50, 70, 80, 85, 90, 100>>
    /\ (\E i \in 1..Len(reported) : reported[i] = 100) =>
          /\ pc = "returned"
          /\ ~outcome.threw
          /\ reported[Len(reported)] = 100
          /\ \A i \in 1..(Len(reported) - 1) : reported[i] < 100

\* a first attempt has run to its end
C17_Witness ==
    /\ pc = "returned"
    /\ started = 1
    /\ Len(reported) = 9
    /\ ~outcome.threw

\* C19: after failed attempt k (1 <= k < MAX_RETRIES) the orchestrator waits
\* k x RETRY_DELAY_MS before attempt k + 1, so the waits grow strictly; there
\* is no wait after the last failed attempt and none after a success.
C19_LinearBackoff ==
    /\ [](/\ \A k \in 1..Len(delays) : delays[k] = k * RETRY_DELAY_MS
          /\ \A k \in 1..(Len(delays) - 1) : delays[k] < delays[k + 1]
          /\ Len(delays) = (IF pc = "delaying" THEN started
                            ELSE IF pc = "idle" THEN 0 ELSE started - 1)
          /\ pc = "thrown" => Len(delays) = MAX_RETRIES - 1
          /\ pc = "delaying" => started < MAX_RETRIES)
    /\ [][(started >= 1 /\ started' # started) =>
              /\ pc = "delaying"
              /\ started' = started + 1
              /\ delays[Len(delays)] = started * RETRY_DELAY_MS
              /\ delays' = delays]_vars

\* every attempt has failed: four waits were taken, none after the fifth failure
C19_Witness ==
    /\ pc = "thrown"
    /\ started = MAX_RETRIES
    /\ delays = <<2000, 4000, 6000, 8000>>

-----------------------------------------------------------------------------
(* Properties of the recommendation services                                *)

\* the quiz answers with the budget question answered again, by code
WithBudget(responses, code) == responses \o <<QuizResponse("budget-range", <<code>>)>>

\* what generateRecommendations returns for the context built from the answers
\* once the budget answer is code
TierRecommendations(responses, code) ==
    generateRecommendations(createPromptContext(WithBudget(responses, code))).v

\* a run that went from quiz answers to priced products of the code's templates
PricedFromQuiz ==
    /\ recPc = "done"
    /\ quizResponses # <<>>
    /\ recommendations.v # getFallbackRecommendations

\* C11: for the budget descriptions the context builder produces, every
\* product template is priced strictly lower in the low tier than in the mid
\* tier, and strictly lower in the mid tier than in the high tier.
C11_TiersStrictlyOrdered ==
    (PricedFromQuiz /\ ResponseMapGet(quizResponses, "budget-range") = Str("budget-mid")) =>
        \A i \in 1..Len(recommendations.v) :
            /\ TierRecommendations(quizResponses, "budget-low")[i].price.min
                   < recommendations.v[i].price.min
            /\ recommendations.v[i].price.min
                   < TierRecommendations(quizResponses, "budget-high")[i].price.min
            /\ TierRecommendations(quizResponses, "budget-low")[i].price.max
                   < recommendations.v[i].price.max
            /\ recommendations.v[i].price.max
                   < TierRecommendations(quizResponses, "budget-high")[i].price.max

\* a is Math.round(n / d): a - 1/2 <= n/d < a + 1/2
IsRounded(a, n, d) == 2 * a * d - d <= 2 * n /\ 2 * n < 2 * a * d + d

\* every product template of the code
Templates ==
    {getBaseProducts[i] : i \in 1..Len(getBaseProducts)}
    \cup {StyleTable[i].product : i \in 1..Len(StyleTable)}

\* a run that priced the code's templates (not the fallback list)
PricedRun ==
    /\ recPc = "done"
    /\ ~pricedProducts(promptContext).threw

\* C12: every generated recommendation has price.min = adjusted - round(0.2 x
\* adjusted) and price.max = adjusted + round(0.2 x adjusted) with adjusted =
\* round(basePrice x multiplier), hence min <= adjusted <= max; for the budget
\* "Under $500" the product of base price 150 gets min 72 and max 108.
C12_PriceRangeAroundAdjusted ==
    PricedRun =>
        /\ \E multiplier \in {calculatePriceMultiplier(Get(promptContext, "budgetRange")).v} :
           \A i \in 1..Len(recommendations.v) :
              \E t \in {u \in Templates : u.name = recommendations.v[i].name} :
              \E adjusted \in
                    {a \in 0..400 :
                        IsRounded(a, t.basePrice * multiplier, 10)} :
              \E spread \in {v \in 0..80 : IsRounded(v, 2 * adjusted, 10)} :
                 /\ recommendations.v[i].price.min = adjusted - spread
                 /\ recommendations.v[i].price.max = adjusted + spread
                 /\ recommendations.v[i].price.min <= adjusted
                 /\ adjusted <= recommendations.v[i].price.max
        /\ Get(promptContext, "budgetRange") = Str("Under $500") =>
              /\ recommendations.v[1].name = "Ergonomic Office Chair"
              /\ recommendations.v[1].price = [min |-> 72, max |-> 108]

\* the budget "Under $500" has been priced: the chair of base price 150
C12_Witness ==
    /\ PricedRun
    /\ Get(promptContext, "budgetRange") = Str("Under $500")
    /\ recommendations.v[1].price = [min |-> 72, max |-> 108]

\* C13: generateRecommendations never raises; it returns at most 8
\* recommendations with pairwise distinct ids or, when something inside fails
\* (a missing context, a field that is no string), the fixed fallback list of
\* exactly 3 recommendations: a chair, a lamp and an organizer.
C13_NeverRaisesBoundedOrFallback ==
    recPc = "done" =>
        /\ ~recommendations.threw
        /\ IF pricedProducts(promptContext).threw
           THEN /\ Len(recommendations.v) = 3
                /\ recommendations.v[1].category = "chair"
                /\ recommendations.v[2].name = "LED Desk Lamp"
                /\ recommendations.v[3].name = "Desktop Organizer"
                /\ \A i \in 1..3 : recommendations.v[i].id = "rec_fallback_" \o IndexKey(i)
           ELSE /\ Len(recommendations.v) <= 8
                /\ \A i, j \in 1..Len(recommendations.v) :
                      i # j => recommendations.v[i].id # recommendations.v[j].id

\* the call with no prompt context has returned the fallback list
C13_Witness ==
    /\ recPc = "done"
    /\ promptContext = Undef
    /\ recommendations = Returned(getFallbackRecommendations)

\* the description the table gives for the answer to a question, the fallback
\* for no answer or a code that is no key of the table
DescriptionOrDefault(codes, descriptions, responses, questionId, fallback) ==
    IF \E i \in 1..Len(codes) : ResponseMapGet(responses, questionId) = Str(codes[i])
    THEN Str(descriptions[CHOOSE i \in 1..Len(codes) :
                              ResponseMapGet(responses, questionId) = Str(codes[i])])
    ELSE Str(fallback)

\* C18: createPromptContext never fails, and each of userVibe, colorPreference
\* and budgetRange is the table's description for a recognised answer code and
\* the default ('Modern and functional', 'Neutral and calming', 'Mid-range
\* quality') for an unanswered question or an unrecognised code.
C18_DescriptionOrDefault ==
    recPc = "context" =>
        /\ Get(promptContext, "userVibe")
              = DescriptionOrDefault(VibeCodes, VibeDescriptions, quizResponses,
                                     "workspace-vibe", "Modern and functional")
        /\ Get(promptContext, "colorPreference")
              = DescriptionOrDefault(ColorCodes, ColorDescriptions, quizResponses,
                                     "color-preference", "Neutral and calming")
        /\ Get(promptContext, "budgetRange")
              = DescriptionOrDefault(BudgetCodes, BudgetDescriptions, quizResponses,
                                     "budget-range", "Mid-range quality")

-----------------------------------------------------------------------------
(* Properties of the color extraction                                       *)

\* C14: when no cluster survives the filtering the service returns the fixed
\* fallback palette (4 neutral hex colors, mood focus), and no returned palette
\* has an empty list of colors.
C14_FallbackWhenNoCluster ==
    (colorPc = "done" /\ pixels # <<>>) =>
        /\ dominantColors = <<>> => palette = createFallbackPalette
        /\ palette.colors # <<>>

Moods == {"focus", "creativity", "calm", "energizing"}

\* C15: determineMood returns one of the four moods for any color list, decided
\* in this order: average saturation > 0.6 and average luminance > 0.5 gives
\* energizing; else saturation > 0.4 and mostly warm colors gives creativity;
\* else luminance < 0.3 or saturation < 0.2 gives focus; else calm.
C15_MoodDecisionOrder ==
    (colorPc = "done" /\ palette # createFallbackPalette) =>
        /\ palette.mood \in Moods
        /\ dominantColors # <<>> =>
              palette.mood =
                 IF SaturationAbove(dominantColors, 6) /\ LuminanceAbove(dominantColors, 5)
                 THEN "energizing"
                 ELSE IF SaturationAbove(dominantColors, 4) /\ isWarm(dominantColors)
                 THEN "creativity"
                 ELSE IF LuminanceBelow(dominantColors, 3) \/ SaturationBelow(dominantColors, 2)
                 THEN "focus"
                 ELSE "calm"

\* a dark, saturated, warm list got creativity although the focus test holds too
C15_Witness ==
    /\ colorPc = "done"
    /\ dominantColors # <<>>
    /\ LuminanceBelow(dominantColors, 3)
    /\ palette.mood = "creativity"

-----------------------------------------------------------------------------
(* Properties of cleanText                                                  *)

\* C16: cleanText is idempotent: cleaning an already cleaned text changes
\* nothing, cleanText(cleanText(x)) = cleanText(x) for every string x.
C16_CleanTextIdempotent == textPc = "twice" => textTwice = textOnce

\* the squared Euclidean distance of two colors
SquaredDistance(color1, color2) ==
    (color2[1] - color1[1]) * (color2[1] - color1[1])
      + (color2[2] - color1[2]) * (color2[2] - color1[2])
      + (color2[3] - color1[3]) * (color2[3] - color1[3])

\* the pixel joins the group whose centroid is closest (the first of several
\* at the least distance) when that distance is below 30, else founds a group
addToClosestGroup(groups, pixel) ==
    IF \E k \in 1..Len(groups) : SquaredDistance(pixel, groups[k].centroid) < 30 * 30
    THEN [k \in 1..Len(groups) |->
            IF k = Min({j \in 1..Len(groups) :
                          \A i \in 1..Len(groups) :
                             SquaredDistance(pixel, groups[j].centroid)
                                <= SquaredDistance(pixel, groups[i].centroid)})
            THEN [pixels |-> Append(groups[k].pixels, pixel),
                  centroid |-> calculateAverageColor(Append(groups[k].pixels, pixel))]
            ELSE groups[k]]
    ELSE Append(groups, [pixels |-> <<pixel>>, centroid |-> pixel])

RECURSIVE groupByClosest(_, _)
groupByClosest(ps, n) ==
    IF n = 0 THEN <<>> ELSE addToClosestGroup(groupByClosest(ps, n - 1), ps[n])

\* the groups the code forms from the pixels that pass the filter
GroupsFormed ==
    groupSimilarColors(filterPixels(pixels, colorConfig), Len(filterPixels(pixels, colorConfig)))

\* C21: groupSimilarColors puts each sample into the cluster whose centroid is
\* closest in Euclidean RGB distance when that least distance is below 30 (the
\* centroid becoming the average of the cluster), else into a new cluster.
C21_JoinsClosestCluster ==
    (colorPc = "clustered" /\ pixels # <<>>) =>
        GroupsFormed
            = groupByClosest(filterPixels(pixels, colorConfig),
                             Len(filterPixels(pixels, colorConfig)))

-----------------------------------------------------------------------------
(* Properties of the recommendation texts of the ergonomic insights         *)

\* the cell of generateRecommendation's table for a canonical category and
\* status; the table has no row for good
TableStrings(category, status) ==
    LET c == IndexOf(CanonicalCategories, ToKey(category))
        s == IndexOf(<<"needs-improvement", "poor">>, ToKey(status))
    IN  IF c < 0 \/ s < 0 THEN {}
        ELSE {Str(Recommendations[c + 1][s + 1][k]) : k \in 1..3}

\* an ergonomic_evaluation entry of the model's answer that names a category
\* and a status
WellFormedEntry(item) ==
    /\ ~Nullish(item)
    /\ IsStr(Get(item, "category"))
    /\ Truthy(normalizeCategory(Get(item, "category").s))
    /\ IsStr(Get(item, "status"))

\* the entry's recommendation is missing or shorter than 20 characters
LacksRecommendation(item) ==
    \/ ~IsStr(Get(item, "recommendation"))
    \/ Len(Get(item, "recommendation").s) < 20

\* the ergonomic_evaluation entries of the answer the analysis was made from
AnsweredEntries ==
    IF aiContent = Null THEN <<>>
    ELSE LET ee == OptionalGet(extractStructuredData(aiContent.s), "ergonomic_evaluation")
         IN  IF IsArr(ee) THEN ee.a ELSE <<>>

\* C23: in a finished analysis, every ergonomic_evaluation entry of the
\* model's answer whose recommendation is missing or shorter than 20
\* characters has an insight of its canonical category and status whose
\* recommendation is one of the strings of the table cell for that category
\* and status.
C23_ShortRecommendationFromTable ==
    (pc = "returned") =>
        \A i \in 1..Len(AnsweredEntries) :
            (WellFormedEntry(AnsweredEntries[i]) /\ LacksRecommendation(AnsweredEntries[i])) =>
                \E k \in 1..Len(outcome.v.ergonomicInsights) :
                    LET insight == outcome.v.ergonomicInsights[k]
                    IN  /\ insight.category
                             = normalizeCategory(Get(AnsweredEntries[i], "category").s)
                        /\ insight.status
                             = normalizeStatus(Get(AnsweredEntries[i], "status").s, "standard")
                        /\ insight.recommendation
                             \in TableStrings(insight.category, insight.status)

\* the improvement_priorities the engine was called with
PrioritiesGiven ==
    LET ip == OptionalGet(ergoIn, "improvement_priorities")
    IN  IF IsArr(ip) THEN ip.a ELSE <<>>

\* one of parseImprovement's keywords occurs in the string
CategoryDetected(improvement) ==
    \E i \in 1..Len(CategoryMappingKeys) :
        Includes(ToLowerCase(improvement), CategoryMappingKeys[i])

\* the positions of the priority strings in which a category is detected
DetectedPriorities ==
    {i \in 1..Len(PrioritiesGiven) : CategoryDetected(PrioritiesGiven[i].s)}

\* the insights made from a priority string: their description is the string
InsightsFrom(improvement) ==
    {k \in 1..Len(ergoOut) : ergoOut[k].description = improvement}

\* C24: of the insights made from improvement_priorities, the one from the
\* first string in which a category is detected has status poor, each one
\* from a later string has status needs-improvement, and a string without a
\* category keyword yields no insight.
C24_FirstDetectedPriorityIsPoor ==
    (ergoPc = "done") =>
        \A i \in 1..Len(PrioritiesGiven) :
            IF i \in DetectedPriorities
            THEN \E k \in InsightsFrom(PrioritiesGiven[i]) :
                    ergoOut[k].status
                        = (IF i = Min(DetectedPriorities) THEN Str("poor")
                           ELSE Str("needs-improvement"))
            ELSE InsightsFrom(PrioritiesGiven[i]) = {}

-----------------------------------------------------------------------------
(* Properties of the error records                                          *)

\* an attempt has failed with an error made by createError
CreatedError == raised # Null /\ raised.code # ""

\* C25: an error created for a rate-limit or quota failure is flagged
\* retryable, an error created for invalid credentials or an invalid image is
\* flagged not retryable, and AIAnalysisService.createError gives the error's
\* code the same flag as OpenAIClientService.createError gave it.
C25_RetryableFlags ==
    CreatedError =>
        /\ raised.code \in ErrorCodes
        /\ raised.code \in {"RATE_LIMIT_ERROR", "QUOTA_EXCEEDED"} => raised.retryable
        /\ raised.code \in {"INVALID_API_KEY", "INVALID_IMAGE"} => ~raised.retryable
        /\ AIAnalysisService_createError(raised.code, raised.message).retryable
             = raised.retryable

-----------------------------------------------------------------------------
(* Properties of OpenAIClientService                                        *)

\* C26: a model call of a request made after clearCache() goes out with a
\* key the proxy issued after that clearCache(), also when a client existed
\* already, and no model call goes out with a key fetched more than
\* CACHE_DURATION before the call.
C26_FreshKeyAfterClearCache ==
    lastCall # Null =>
        /\ lastCall.key.serial > lastCall.floor
        /\ lastCall.at - lastCall.key.fetchedAt <= CACHE_DURATION

-----------------------------------------------------------------------------
(* Properties of the usage tracking                                         *)

\* recordAnalysisUsage calls that have returned success today
SuccessfulRecords == earlier + Cardinality(recordedFor)

\* C27: however the recordAnalysisUsage calls of one day interleave, at most
\* DAILY_ANALYSES of them succeed, the stored currentDaily.analysisCount
\* equals the number of successful calls, and a call that returns an error
\* leaves the stored tracking as it was.
C27_AtMostLimitRecorded ==
    /\ [](/\ SuccessfulRecords <= DAILY_ANALYSES
          /\ usageTracking # Null =>
                usageTracking.currentDaily.analysisCount = SuccessfulRecords)
    /\ [][\A p \in Handlers :
            (callFlow[p] = "home" /\ callPc[p] = "getItem" /\ callPc'[p] = "refused"
               /\ usageTracking # Null)
                => usageTracking' = usageTracking]_vars

\* C28: a handler that has called analyzeWorkspace has had its
\* recordAnalysisUsage return success before, in the home-screen flow and in
\* the re-run flow of the favorites screen, so that no more than
\* DAILY_ANALYSES analyses are started on one day.
C28_AnalysisPrecededByRecord ==
    /\ analysesStarted \subseteq recordedFor
    /\ earlier + Cardinality(analysesStarted) <= DAILY_ANALYSES

-----------------------------------------------------------------------------
(* Properties of the design storage                                         *)

\* the ids of the stored designs
StoredIds == {savedDesigns[i].id : i \in 1..Len(savedDesigns)}

\* C29: however saveDesign, updateDesign, toggleFavorite and deleteDesign
\* calls follow one another or interleave, the stored list holds at most
\* MAX_SAVED_DESIGNS designs with pairwise distinct ids, every design whose
\* saveDesign returned success is in it until a deleteDesign of it has
\* succeeded, and a call that returns an error leaves the stored list as it
\* was.
C29_StoredDesignsConsistent ==
    /\ [](/\ Len(savedDesigns) <= MaxSavedDesigns
          /\ Cardinality(StoredIds) = Len(savedDesigns))
    /\ []((savedOk \ deletedOk) \subseteq StoredIds)
    /\ [][\A p \in Callers :
            (opResult[p] = "none" /\ opResult'[p] = "error")
                => savedDesigns' = savedDesigns]_vars

-----------------------------------------------------------------------------
(* Properties of the restore                                                *)

\* C30: restoreFromBackup is all-or-nothing: once it has returned success,
\* every key that is stored holds the backup's data and every section of the
\* backup is stored; once it has returned an error, what was stored before
\* the call is still stored, unchanged.
C30_RestoreAllOrNothing ==
    /\ restoreResult = "success" =>
          /\ \A k \in StorageKeys : storage[k] # "none" => storage[k] = "backup"
          /\ \A k \in backupFile.sections : storage[k] = "backup"
    /\ restoreResult = "error" => storage = storedBefore

====
